---------------------------- MODULE Spec2Model ----------------------------
(***************************************************************************)
(* A model of the GoRDP Qt front-end (qt-gui): the bridge object that      *)
(* launches the engine process and talks to it over HTTP and a WebSocket,  *)
(* the main window that reacts to the bridge's signals, the display widget *)
(* that shows bitmaps and emits input events, and the settings and         *)
(* virtual-channel dialogs that persist their widgets in QSettings.        *)
(*                                                                         *)
(* Every handler of the program is one action.  A signal emitted through a *)
(* direct Qt connection runs its slots before the emitting handler         *)
(* returns, so the slots' effects are part of the emitting action.         *)
(***************************************************************************)
EXTENDS Integers, Sequences, FiniteSets, TLC

(***************************************************************************)
(* Bounds of the model.                                                    *)
(***************************************************************************)
\* outstanding HTTP requests the network manager holds at once
MaxOutstanding == 2
\* WebSocket text messages kept on the wire before the model stops sending
MaxSent == 2
\* temporary bridges alive at once (one per Test Connection run)
MaxTestBridges == 1
\* entries of each combo box of the settings dialog (set by the .ui file)
ComboItems == 3
\* widget edits by the user in one run of a dialog
MaxEdits == 2

VARIABLES
    \* ---- GoRDPBridge owned by MainWindow (gordp_bridge.h:92-110)
    m_apiRunning,            \* bool m_apiRunning
    m_isConnected,           \* bool m_isConnected
    m_lastPerformanceStats,  \* QJsonObject m_lastPerformanceStats
    procState,               \* m_gordpProcess->state()
    wsState,                 \* m_websocket->state()
    httpOutstanding,         \* requests posted to m_networkManager, not yet answered
    wsSent,                  \* text messages sent over m_websocket, in order
    m_currentServer,         \* QString m_currentServer
    m_currentPort,           \* int m_currentPort
    m_currentUsername,       \* QString m_currentUsername
    \* ---- environment of the bridge
    exePresent,              \* gordp-api can be found (getGoRDPExecutablePath)
    \* ---- MainWindow (mainwindow.h:80-124)
    mw_isConnected,          \* MainWindow::m_isConnected
    connectActionEnabled,    \* m_connectAction->isEnabled()
    disconnectActionEnabled, \* m_disconnectAction->isEnabled()
    statusTimerActive,       \* m_statusTimer->isActive()
    statusBarMessage,        \* statusBar()->currentMessage()
    menuBarMenus,            \* titles of menuBar()->actions(), in order
    m_recentConnectionsMenu, \* "null", or "menu" once the QMenu was created
    m_connectionDialog,      \* "null", or the dialog: "shown" or "hidden"
    lastCloseEvent,          \* the last QCloseEvent of the window: "none" before
                             \* any, then "accepted" or "ignored"
    \* ---- RDPDisplayWidget (rdp_display.h:66-81)
    m_displayPixmap,         \* QPixmap m_displayPixmap
    m_remoteResolution,      \* QSize m_remoteResolution, <<width, height>>
    m_zoomLevel,             \* double m_zoomLevel, in tenths
    widgetRect,              \* rect().size() of the widget, <<width, height>>
    m_pressedButtons,        \* Qt::MouseButtons m_pressedButtons, a set
    \* ---- other GoRDPBridge instances
    testBridges,             \* bridges made by ConnectionDialog::onTestConnectionClicked,
                             \* each with the single-shot timer set for it
    availCheck,              \* main.cpp's single-shot check: "pending", "warning", "done"
    \* ---- SettingsDialog (settings_dialog.h:41-44)
    sd_ui,                   \* the checkboxes and combo boxes of Ui::SettingsDialog
    sd_store,                \* QSettings("GoRDP", "GUI")
    sd_modified,             \* SettingsDialog::m_settingsModified
    sd_okEnabled,            \* ui->okButton->isEnabled()
    sd_currentSettings,      \* QJsonObject m_currentSettings
    sd_edits,                \* user edits so far (bounded by MaxEdits)
    \* ---- VirtualChannelDialog (virtual_channel_dialog.h:49-60)
    vc_ui,                   \* the ten checkboxes of Ui::VirtualChannelDialog
    vc_store,                \* QSettings("GoRDP", "VirtualChannels")
    vc_modified,             \* VirtualChannelDialog::m_settingsModified
    vc_applyEnabled,         \* ui->applyButton->isEnabled()
    vc_currentSettings,      \* QJsonObject m_currentSettings
    vc_edits,                \* user edits so far (bounded by MaxEdits)
    \* ---- what the last handler did
    op,                      \* the last handler run
    sig,                     \* signals the last handler emitted, in order
    boxes,                   \* message boxes the last handler showed, in order
    posted,                  \* HTTP requests the last handler posted, in order
    \* ---- what the user asked for last
    userDisconnected         \* disconnectFromServer has ended a session and
                             \* connectToServer was not called since

bridgeVars == <<m_apiRunning, m_isConnected, m_lastPerformanceStats, procState,
                wsState, httpOutstanding, wsSent, exePresent, m_currentServer,
                m_currentPort, m_currentUsername>>
connectionInfo == <<m_currentServer, m_currentPort, m_currentUsername>>
mwVars == <<mw_isConnected, connectActionEnabled, disconnectActionEnabled,
            statusTimerActive, statusBarMessage, menuBarMenus, m_recentConnectionsMenu,
            m_connectionDialog, lastCloseEvent>>
displayVars == <<m_displayPixmap, m_remoteResolution, m_zoomLevel, widgetRect,
                 m_pressedButtons>>
otherBridgeVars == <<testBridges, availCheck>>
settingsVars == <<sd_ui, sd_store, sd_modified, sd_okEnabled, sd_currentSettings, sd_edits>>
vcVars == <<vc_ui, vc_store, vc_modified, vc_applyEnabled, vc_currentSettings, vc_edits>>
lastVars == <<op, sig, boxes, posted, userDisconnected>>
vars == <<bridgeVars, mwVars, displayVars, otherBridgeVars, settingsVars, vcVars, lastVars>>


(***************************************************************************)
(* JSON texts.  A text is a sequence of tokens <<kind, text>>; the parser  *)
(* below accepts the texts QJsonDocument::fromJson accepts (an object or   *)
(* an array at the top) and reports an error for every other sequence.     *)
(***************************************************************************)
P(c) == <<"punct", c>>
S(x) == <<"str", x>>
L(x) == <<"lit", x>>
W(x) == <<"word", x>>

JString(x) == [kind |-> "string", s |-> x, o |-> <<>>]
JBool(b) == [kind |-> "bool", s |-> IF b THEN "true" ELSE "false", o |-> <<>>]
JNull == [kind |-> "null", s |-> "", o |-> <<>>]
JArray == [kind |-> "array", s |-> "", o |-> <<>>]
JObject(members) == [kind |-> "object", s |-> "", o |-> members]
JUndefined == [kind |-> "undefined", s |-> "", o |-> <<>>]
ParseFail == [ok |-> FALSE, val |-> JNull, next |-> 0]

RECURSIVE ParseValue(_, _)
RECURSIVE ParseMembers(_, _, _)
\* the value starting at token i of t
ParseValue(t, i) ==
    IF i > Len(t) THEN ParseFail
    ELSE LET tok == t[i] IN
         IF tok[1] = "str" THEN [ok |-> TRUE, val |-> JString(tok[2]), next |-> i + 1]
         ELSE IF tok[1] = "lit" /\ tok[2] \in {"true", "false"}
              THEN [ok |-> TRUE, val |-> JBool(tok[2] = "true"), next |-> i + 1]
         ELSE IF tok[1] = "lit" /\ tok[2] = "null"
              THEN [ok |-> TRUE, val |-> JNull, next |-> i + 1]
         ELSE IF tok = P("[")
              THEN IF i + 1 <= Len(t) /\ t[i + 1] = P("]")
                   THEN [ok |-> TRUE, val |-> JArray, next |-> i + 2]
                   ELSE ParseFail
         ELSE IF tok = P("{")
              THEN IF i + 1 <= Len(t) /\ t[i + 1] = P("}")
                   THEN [ok |-> TRUE, val |-> JObject(<<>>), next |-> i + 2]
                   ELSE ParseMembers(t, i + 1, <<>>)
         ELSE ParseFail

\* the members of an object, the first of them starting at token i
ParseMembers(t, i, acc) ==
    IF i + 2 > Len(t) \/ t[i][1] # "str" \/ t[i + 1] # P(":") THEN ParseFail
    ELSE LET v == ParseValue(t, i + 2) IN
         IF ~v.ok \/ v.next > Len(t) THEN ParseFail
         ELSE LET all == Append(acc, <<t[i][2], v.val>>) IN
              IF t[v.next] = P("}")
              THEN [ok |-> TRUE, val |-> JObject(all), next |-> v.next + 1]
              ELSE IF t[v.next] = P(",") THEN ParseMembers(t, v.next + 1, all)
              ELSE ParseFail

\* QJsonDocument::fromJson(data, &parseError): the document, or a parse error
FromJson(t) ==
    LET r == ParseValue(t, 1) IN
    IF r.ok /\ r.next = Len(t) + 1 /\ r.val.kind \in {"object", "array"}
    THEN [error |-> FALSE, doc |-> r.val]
    ELSE [error |-> TRUE, doc |-> JNull]

\* QJsonDocument::object(): the object, or an empty one for an array
DocObject(doc) == IF doc.kind = "object" THEN doc ELSE JObject(<<>>)
\* QJsonObject::operator[](key): the value, or Undefined
ObjGet(obj, key) ==
    LET hits == {i \in DOMAIN obj.o : obj.o[i][1] = key} IN
    IF hits = {} THEN JUndefined
    ELSE obj.o[CHOOSE i \in hits : \A j \in hits : j <= i][2]
\* QJsonValue::toString(), toBool(), toObject()
JToString(v) == IF v.kind = "string" THEN v.s ELSE ""
JToBool(v) == v.kind = "bool" /\ v.s = "true"
JToObject(v) == IF v.kind = "object" THEN v ELSE JObject(<<>>)

\* the texts the engine (or whatever answers on the port) sends
Texts ==
    { <<W("invalid"), W("json")>>,
      <<>>,
      <<P("{"), S("type"), P(":"), S("connection_status")>>,
      <<P("{"), S("type"), P(":"), S("connection_status"), P(","), S("connected"),
         P(":"), L("true"), P("}")>>,
      <<P("{"), S("type"), P(":"), S("connection_status"), P(","), S("connected"),
         P(":"), L("false"), P("}")>>,
      <<P("{"), S("type"), P(":"), S("error"), P(","), S("message"), P(":"),
         S("refused"), P("}")>>,
      <<P("{"), S("type"), P(":"), S("performance"), P(","), S("data"), P(":"),
         P("{"), S("fps"), P(":"), S("30"), P("}"), P("}")>>,
      <<P("{"), S("type"), P(":"), S("history"), P(","), S("data"), P(":"), P("["),
         P("]"), P("}")>>,
      <<P("{"), S("type"), P(":"), S("bitmap"), P("}")>>,
      <<P("["), P("]")>> }


(***************************************************************************)
(* Images and bitmap frames.  A frame is the byte array of a binary        *)
(* WebSocket message: a format tag, the size it declares and its pixels.   *)
(***************************************************************************)
NullImage == [w |-> 0, h |-> 0, px |-> "null"]
Frame(magic, w, h, px) == [magic |-> magic, w |-> w, h |-> h, px |-> px]
Frames == {Frame("PNG", 800, 600, "a"), Frame("BMP", 1024, 768, "b"),
           Frame("PNG", 640, 480, "c"), Frame("junk", 0, 0, ""), Frame("PNG", 0, 0, "")}
\* QImage::loadFromData: true for a known format holding a non-empty picture
LoadFromData(data) == data.magic \in {"PNG", "BMP"} /\ data.w > 0 /\ data.h > 0
\* GoRDPBridge::decodeBitmapData
decodeBitmapData(data) ==
    IF LoadFromData(data) THEN [w |-> data.w, h |-> data.h, px |-> data.px]
    ELSE NullImage
\* RDPDisplayWidget's first pixmap: QPixmap(m_remoteResolution) filled black
BlackPixmap(size) == [w |-> size[1], h |-> size[2], px |-> "black"]

(***************************************************************************)
(* Signals are <<name, argument>>.  MainWindow's slots for the signals of  *)
(* its bridge (mainwindow.cpp:70-82) follow: each takes the value before   *)
(* the signals and gives the value after the slots have run.               *)
(***************************************************************************)
Emit(name, arg) == <<name, arg>>
Count(sigs, name) == Cardinality({i \in DOMAIN sigs : sigs[i][1] = name})
ErrorSignals == {"apiError", "connectionError"}

\* MainWindow::onErrorOccurred: one warning box per error signal
RECURSIVE BoxesFor(_)
BoxesFor(sigs) ==
    IF sigs = <<>> THEN <<>>
    ELSE (IF sigs[1][1] \in ErrorSignals
          THEN <<<<"warning", "Error", sigs[1][2]>>>> ELSE <<>>) \o BoxesFor(Tail(sigs))

\* the status-bar message left by the slots
RECURSIVE StatusAfter(_, _)
StatusAfter(msg, sigs) ==
    IF sigs = <<>> THEN msg
    ELSE LET s1 == sigs[1] IN
         StatusAfter(
             IF s1[1] \in ErrorSignals THEN "Error: " \o s1[2]
             ELSE IF s1[1] = "apiStarted" THEN "GoRDP API started"
             ELSE IF s1[1] = "apiStopped" THEN "GoRDP API stopped"
             ELSE IF s1[1] = "connectionStatusChanged"
                  THEN (IF s1[2] THEN "Connected to remote server" ELSE "Disconnected")
             ELSE msg,
             Tail(sigs))

\* the argument of the last connectionStatusChanged, or c when there is none
RECURSIVE ConnectedAfter(_, _)
ConnectedAfter(c, sigs) ==
    IF sigs = <<>> THEN c
    ELSE ConnectedAfter(IF sigs[1][1] = "connectionStatusChanged" THEN sigs[1][2] ELSE c,
                        Tail(sigs))

\* updateConnectionStatus without the line that disables Connect
updateConnectionStatus_ConnectStaysEnabled(connected) ==
    <<connected, TRUE, connected, connected>>

\* MainWindow::updateConnectionStatus, as the values of
\* <<m_isConnected, connect enabled, disconnect enabled, status timer active>>
updateConnectionStatus(connected) == <<connected, ~connected, connected, connected>>

\* updateBitmap without the line that takes over the image's size
updateBitmap_KeepsResolution(pix, res, image) ==
    IF image = NullImage THEN <<pix, res>> ELSE <<image, res>>

\* RDPDisplayWidget::updateBitmap, as <<m_displayPixmap, m_remoteResolution>>
updateBitmap(pix, res, image) ==
    IF image = NullImage THEN <<pix, res>>
    ELSE <<image, <<image.w, image.h>>>>

\* MainWindow::onBitmapReceived for every bitmapReceived of sigs
RECURSIVE DisplayAfter(_, _)
DisplayAfter(d, sigs) ==
    IF sigs = <<>> THEN d
    ELSE DisplayAfter(IF sigs[1][1] = "bitmapReceived"
                      THEN updateBitmap(d[1], d[2], sigs[1][2]) ELSE d,
                      Tail(sigs))

\* the main bridge emits sigs: the slots of MainWindow run
React(sigs) ==
    /\ sig' = sigs
    /\ boxes' = BoxesFor(sigs)
    /\ statusBarMessage' = StatusAfter(statusBarMessage, sigs)
    /\ IF Count(sigs, "connectionStatusChanged") > 0
       THEN LET u == updateConnectionStatus(ConnectedAfter(FALSE, sigs))
            IN  /\ mw_isConnected' = u[1]
                /\ connectActionEnabled' = u[2]
                /\ disconnectActionEnabled' = u[3]
                /\ statusTimerActive' = u[4]
       ELSE UNCHANGED <<mw_isConnected, connectActionEnabled, disconnectActionEnabled,
                        statusTimerActive>>
    /\ m_displayPixmap' = DisplayAfter(<<m_displayPixmap, m_remoteResolution>>, sigs)[1]
    /\ m_remoteResolution' = DisplayAfter(<<m_displayPixmap, m_remoteResolution>>, sigs)[2]

\* what the handlers of the bridge and of the main window leave alone
RestOfWindow == <<menuBarMenus, m_recentConnectionsMenu, m_connectionDialog,
                  lastCloseEvent, m_zoomLevel, widgetRect, m_pressedButtons>>
Dialogs == <<settingsVars, vcVars>>


(***************************************************************************)
(* GoRDPBridge.  Each handler is an operator from the fields it reads (and *)
(* what the environment decides) to the fields it writes, the signals it   *)
(* emits and the requests it posts.                                        *)
(***************************************************************************)
\* QProcess::ProcessError
ProcessErrors == {"FailedToStart", "Crashed", "Timedout", "ReadError", "WriteError",
                  "UnknownError"}
\* the errors QProcess reports of a process that goes on running
NonFatalErrors == {"Timedout", "ReadError", "WriteError", "UnknownError"}
\* exit codes of the engine
ExitCodes == {0, 1}
\* the exit code QProcess reports of a process ended by a signal (SIGTERM, SIGKILL)
SignalExitCodes == {9, 15}

\* GoRDPBridge::onProcessFinished (the engine's standard error, which the
\* message ends with, is left empty)
onProcessFinished(exitCode) ==
    [api |-> FALSE,
     sigs |-> IF exitCode # 0
              THEN <<Emit("apiError", "GoRDP API exited with error: ")>> ELSE <<>>]

\* onProcessError telling the errors of a running process from the fatal ones
onProcessError_KeepsRunning(error) ==
    [api |-> error \in {"Timedout", "ReadError", "WriteError", "UnknownError"},
     sigs |-> <<Emit("apiError",
                     CASE error = "FailedToStart" -> "Failed to start GoRDP API"
                       [] error = "Crashed" -> "GoRDP API crashed"
                       [] OTHER -> "GoRDP API process error")>>]

\* GoRDPBridge::onProcessError
onProcessError(error) ==
    [api |-> FALSE,
     sigs |-> <<Emit("apiError",
                     CASE error = "FailedToStart" -> "Failed to start GoRDP API"
                       [] error = "Crashed" -> "GoRDP API crashed"
                       [] OTHER -> "GoRDP API process error")>>]

\* QWebSocket::open: any earlier socket is dropped and a new one connects
WsOpen(ws) == "Connecting"
\* QWebSocket::close: a connected socket starts the closing handshake
WsClose(ws) ==
    CASE ws = "Connected" -> "Closing"
      [] ws = "Connecting" -> "Unconnected"
      [] OTHER -> ws

\* how QProcess::waitForStarted can end for a process that is starting
StartOutcomes == {"started", "failedToStart", "timedOut"}

\* GoRDPBridge::startGoRDPAPI (with setupWebSocket)
startGoRDPAPI(api, proc, ws, exe, outcome) ==
    IF api THEN [api |-> api, proc |-> proc, ws |-> ws, sigs |-> <<>>]
    ELSE IF ~exe
    THEN [api |-> api, proc |-> proc, ws |-> ws,
          sigs |-> <<Emit("apiError", "GoRDP executable not found")>>]
    ELSE LET \* QProcess::start does nothing to a process that is not NotRunning
             launched == IF proc = "NotRunning" THEN "Starting" ELSE proc
             \* QProcess::waitForStarted
             waited == IF launched = "Running" THEN "started" ELSE outcome
         IN  IF waited = "started"
             THEN [api |-> TRUE, proc |-> "Running", ws |-> WsOpen(ws),
                   sigs |-> <<Emit("apiStarted", "")>>]
             ELSE IF waited = "failedToStart"
             THEN [api |-> onProcessError("FailedToStart").api, proc |-> "NotRunning",
                   ws |-> ws,
                   sigs |-> onProcessError("FailedToStart").sigs
                            \o <<Emit("apiError", "Failed to start GoRDP API server")>>]
             ELSE [api |-> api, proc |-> launched, ws |-> ws,
                   sigs |-> <<Emit("apiError", "Failed to start GoRDP API server")>>]

\* how terminate() and waitForFinished(5000) can end for a process that runs
StopOutcomes == {"exited0", "exited1", "signalled", "hung"}

\* GoRDPBridge::stopGoRDPAPI
stopGoRDPAPI(proc, ws, outcome) ==
    LET ended == proc # "NotRunning" /\ outcome # "hung"
        \* the slots that run inside waitForFinished
        during == IF ~ended THEN <<>>
                  ELSE IF outcome = "signalled"
                  THEN onProcessError("Crashed").sigs \o onProcessFinished(15).sigs
                  ELSE onProcessFinished(IF outcome = "exited0" THEN 0 ELSE 1).sigs
    IN  [api |-> FALSE, conn |-> FALSE,
         \* kill() returns at once: a process that ignored terminate() still runs
         proc |-> IF ended THEN "NotRunning" ELSE proc,
         ws |-> WsClose(ws),
         sigs |-> during \o <<Emit("apiStopped", "")>>]

\* GoRDPBridge::sendHttpRequest: the request handed to QNetworkAccessManager::post
sendHttpRequest(endpoint, data) == <<endpoint, data>>

\* connectToServer without the m_apiRunning check
connectToServer_NoApiCheck(api, cur, server, port, username, password, options) ==
    [cur |-> <<server, port, username>>,
     posts |-> <<sendHttpRequest("/api/connect",
                     <<<<"server", server>>, <<"port", port>>,
                       <<"username", username>>, <<"password", password>>>>
                     \o (IF options # <<>> THEN <<<<"options", options>>>> ELSE <<>>))>>,
     sigs |-> <<>>]

\* connectToServer storing the connection info before the m_apiRunning check
connectToServer_StoresFirst(api, cur, server, port, username, password, options) ==
    IF ~api
    THEN [cur |-> <<server, port, username>>, posts |-> <<>>,
          sigs |-> <<Emit("connectionError", "GoRDP API not running")>>]
    ELSE [cur |-> <<server, port, username>>,
          posts |-> <<sendHttpRequest("/api/connect",
                         <<<<"server", server>>, <<"port", port>>,
                           <<"username", username>>, <<"password", password>>>>
                         \o (IF options # <<>> THEN <<<<"options", options>>>> ELSE <<>>))>>,
          sigs |-> <<>>]

\* GoRDPBridge::connectToServer
\* (cur is <<m_currentServer, m_currentPort, m_currentUsername>>)
connectToServer(api, cur, server, port, username, password, options) ==
    IF ~api
    THEN [cur |-> cur, posts |-> <<>>,
          sigs |-> <<Emit("connectionError", "GoRDP API not running")>>]
    ELSE [cur |-> <<server, port, username>>,
          posts |-> <<sendHttpRequest("/api/connect",
                         <<<<"server", server>>, <<"port", port>>,
                           <<"username", username>>, <<"password", password>>>>
                         \o (IF options # <<>> THEN <<<<"options", options>>>> ELSE <<>>))>>,
          sigs |-> <<>>]

\* disconnectFromServer without the m_isConnected check
disconnectFromServer_Unconditional(conn) ==
    [conn |-> FALSE, posts |-> <<sendHttpRequest("/api/disconnect", <<>>)>>,
     sigs |-> <<Emit("connectionStatusChanged", FALSE)>>]

\* GoRDPBridge::disconnectFromServer
disconnectFromServer(conn) ==
    IF conn
    THEN [conn |-> FALSE, posts |-> <<sendHttpRequest("/api/disconnect", <<>>)>>,
          sigs |-> <<Emit("connectionStatusChanged", FALSE)>>]
    ELSE [conn |-> conn, posts |-> <<>>, sigs |-> <<>>]

\* GoRDPBridge::getConnectionStatus
getConnectionStatus == <<sendHttpRequest("/api/status", <<>>)>>

\* GoRDPBridge::handleHttpResponse
handleHttpResponse(doc, conn, perf) ==
    LET obj == DocObject(doc)
        type == JToString(ObjGet(obj, "type"))
    IN  IF type = "connection_status"
        THEN [conn |-> JToBool(ObjGet(obj, "connected")), perf |-> perf,
              sigs |-> <<Emit("connectionStatusChanged", JToBool(ObjGet(obj, "connected")))>>]
        ELSE IF type = "error"
        THEN [conn |-> conn, perf |-> perf,
              sigs |-> <<Emit("connectionError", JToString(ObjGet(obj, "message")))>>]
        ELSE IF type = "history"
        THEN [conn |-> conn, perf |-> perf,
              sigs |-> <<Emit("connectionHistoryLoaded", ObjGet(obj, "data"))>>]
        ELSE IF type = "favorites"
        THEN [conn |-> conn, perf |-> perf,
              sigs |-> <<Emit("favoritesLoaded", ObjGet(obj, "data"))>>]
        ELSE IF type = "performance"
        THEN [conn |-> conn, perf |-> JToObject(ObjGet(obj, "data")),
              sigs |-> <<Emit("performanceStatsReceived", JToObject(ObjGet(obj, "data")))>>]
        ELSE [conn |-> conn, perf |-> perf, sigs |-> <<>>]

\* a finished QNetworkReply: a network error, or a body
ReplyError(text) == [failed |-> TRUE, errorString |-> text, body |-> <<>>]
ReplyBody(t) == [failed |-> FALSE, errorString |-> "", body |-> t]
Replies == {ReplyError("Connection refused")} \cup {ReplyBody(t) : t \in Texts}

\* onNetworkReplyFinished without the parse-error check
onNetworkReplyFinished_NoParseCheck(reply, conn, perf) ==
    IF reply.failed
    THEN [conn |-> conn, perf |-> perf,
          sigs |-> <<Emit("connectionError", reply.errorString)>>]
    ELSE handleHttpResponse(FromJson(reply.body).doc, conn, perf)

\* GoRDPBridge::onNetworkReplyFinished
onNetworkReplyFinished(reply, conn, perf) ==
    IF reply.failed
    THEN [conn |-> conn, perf |-> perf,
          sigs |-> <<Emit("connectionError", reply.errorString)>>]
    ELSE IF FromJson(reply.body).error
    THEN [conn |-> conn, perf |-> perf,
          sigs |-> <<Emit("connectionError", "Invalid JSON response")>>]
    ELSE handleHttpResponse(FromJson(reply.body).doc, conn, perf)

\* GoRDPBridge::handleWebSocketMessage
handleWebSocketMessage(doc, conn) ==
    LET obj == DocObject(doc)
        type == JToString(ObjGet(obj, "type"))
    IN  IF type = "bitmap" THEN [conn |-> conn, sigs |-> <<>>]
        ELSE IF type = "connection_status"
        THEN [conn |-> JToBool(ObjGet(obj, "connected")),
              sigs |-> <<Emit("connectionStatusChanged", JToBool(ObjGet(obj, "connected")))>>]
        ELSE [conn |-> conn, sigs |-> <<>>]

\* GoRDPBridge::onWebSocketTextMessageReceived
onWebSocketTextMessageReceived(message, conn) ==
    IF FromJson(message).error THEN [conn |-> conn, sigs |-> <<>>]
    ELSE handleWebSocketMessage(FromJson(message).doc, conn)

\* GoRDPBridge::onWebSocketBinaryMessageReceived: the signals it emits
onWebSocketBinaryMessageReceived(message) ==
    IF decodeBitmapData(message) # NullImage
    THEN <<Emit("bitmapReceived", decodeBitmapData(message))>>
    ELSE <<>>

\* GoRDPBridge::sendMouseEvent, sendKeyEvent, sendWheelEvent: the text
\* messages handed to QWebSocket::sendTextMessage
sendMouseEvent(ws, x, y, button, pressed) ==
    IF ws = "Connected" THEN <<<<"mouse", x, y, button, pressed>>>> ELSE <<>>
sendKeyEvent(ws, key, pressed) ==
    IF ws = "Connected" THEN <<<<"keyboard", key, pressed>>>> ELSE <<>>
sendWheelEvent(ws, delta) ==
    IF ws = "Connected" THEN <<<<"wheel", delta>>>> ELSE <<>>


(***************************************************************************)
(* RDPDisplayWidget: coordinate, button and key translation, and the       *)
(* signals its event handlers emit.  The zoom level, a double in the       *)
(* program, is counted in tenths.                                          *)
(***************************************************************************)
\* a double that is not a number, coded as a count of tenths that no zoom
\* level of the model takes; every comparison with it is false
NaN == 1000000
IsNaN(d) == d = NaN
\* conversion of a double that is not a number to int is undefined: the
\* values builds produce (x86-64: INT_MIN, AArch64: 0, RISC-V: INT_MAX)
UndefinedInts == {-2147483647 - 1, 0, 2147483647}
\* conversion of a double to int: truncation toward zero (b > 0)
TruncDiv(a, b) == IF a >= 0 THEN a \div b ELSE -((-a) \div b)
\* qRound of n * zoom for n >= 0
RoundScaled(n, zoom) == (2 * n * zoom + 10) \div 20
\* qBound(min, val, max)
qBound(min, val, max) ==
    LET low == IF val < max THEN val ELSE max IN IF min > low THEN min ELSE low
\* QSize::isEmpty
SizeIsEmpty(size) == size[1] <= 0 \/ size[2] <= 0

\* the rectangle the remote image occupies, <<left, top, width, height>>:
\* rect() with each side centred when the scaled image is smaller
DisplayRect(rect, res, zoom) ==
    LET sw == RoundScaled(res[1], zoom)
        sh == RoundScaled(res[2], zoom)
    IN  <<IF sw < rect[1] THEN (rect[1] - sw) \div 2 ELSE 0,
          IF sh < rect[2] THEN (rect[2] - sh) \div 2 ELSE 0,
          IF sw < rect[1] THEN sw ELSE rect[1],
          IF sh < rect[2] THEN sh ELSE rect[2]>>

\* RDPDisplayWidget::convertToRemoteCoordinates for a zoom level that is a
\* number
convertToRemoteCoordinates(localPoint, rect, res, zoom) ==
    IF SizeIsEmpty(res) THEN localPoint
    ELSE LET d == DisplayRect(rect, res, zoom)
             rx == TruncDiv((localPoint[1] - d[1]) * 10, zoom)
             ry == TruncDiv((localPoint[2] - d[2]) * 10, zoom)
         IN  <<qBound(0, rx, res[1] - 1), qBound(0, ry, res[2] - 1)>>

\* RDPDisplayWidget::convertToRemoteCoordinates, as the set of points a call
\* can return: with a zoom level that is not a number the quotients are not
\* numbers, their conversion to int is undefined, and qBound is applied to
\* whatever int it gives
RemotePoints(localPoint, rect, res, zoom) ==
    IF SizeIsEmpty(res) \/ ~IsNaN(zoom)
    THEN {convertToRemoteCoordinates(localPoint, rect, res, zoom)}
    ELSE {<<qBound(0, u, res[1] - 1), qBound(0, u, res[2] - 1)>> : u \in UndefinedInts}

\* RDPDisplayWidget::paintEvent: what is painted at localPoint, and for the
\* pixmap which of its pixels.  The pixmap is
\* drawn whole into targetRect (rect() with each side centred when the scaled
\* size is smaller), so the pixmap's pixel at a point of targetRect is the
\* point's offset scaled by pixmap size over target size
paintEvent(localPoint, pixmap, rect, res, zoom) ==
    IF pixmap.w = 0 \/ pixmap.h = 0 THEN [what |-> "No remote display", at |-> <<>>]
    ELSE LET scaledSize == <<RoundScaled(res[1], zoom), RoundScaled(res[2], zoom)>>
             x == IF scaledSize[1] < rect[1] THEN (rect[1] - scaledSize[1]) \div 2 ELSE 0
             y == IF scaledSize[2] < rect[2] THEN (rect[2] - scaledSize[2]) \div 2 ELSE 0
             width == IF scaledSize[1] < rect[1] THEN scaledSize[1] ELSE rect[1]
             height == IF scaledSize[2] < rect[2] THEN scaledSize[2] ELSE rect[2]
         IN  IF \/ localPoint[1] < x \/ localPoint[1] >= x + width
                \/ localPoint[2] < y \/ localPoint[2] >= y + height
             THEN [what |-> "background", at |-> <<>>]
             ELSE [what |-> "pixmap",
                   at |-> <<((localPoint[1] - x) * pixmap.w) \div width,
                            ((localPoint[2] - y) * pixmap.h) \div height>>]

\* RDPDisplayWidget::convertQtMouseButton
convertQtMouseButton(button) ==
    CASE button = "LeftButton" -> 1
      [] button = "RightButton" -> 2
      [] button = "MiddleButton" -> 3
      [] button = "XButton1" -> 4
      [] button = "XButton2" -> 5
      [] OTHER -> 0

\* the named keys of RDPDisplayWidget::convertQtKeyToRDP, <<Qt::Key, RDP key>>
DisplayKeyTable ==
    { <<16777216, 27>>,  \* Key_Escape   -> 0x1B
      <<16777220, 13>>,  \* Key_Return   -> 0x0D
      <<16777217, 9>>,   \* Key_Tab      -> 0x09
      <<16777219, 8>>,   \* Key_Backspace -> 0x08
      <<16777223, 46>>,  \* Key_Delete   -> 0x2E
      <<16777222, 45>>,  \* Key_Insert   -> 0x2D
      <<16777232, 36>>,  \* Key_Home     -> 0x24
      <<16777233, 35>>,  \* Key_End      -> 0x23
      <<16777238, 33>>,  \* Key_PageUp   -> 0x21
      <<16777239, 34>>,  \* Key_PageDown -> 0x22
      <<16777235, 38>>,  \* Key_Up       -> 0x26
      <<16777237, 40>>,  \* Key_Down     -> 0x28
      <<16777234, 37>>,  \* Key_Left     -> 0x25
      <<16777236, 39>>,  \* Key_Right    -> 0x27
      <<16777264, 112>>, <<16777265, 113>>, <<16777266, 114>>,  \* Key_F1..F3
      <<16777267, 115>>, <<16777268, 116>>, <<16777269, 117>>,  \* Key_F4..F6
      <<16777270, 118>>, <<16777271, 119>>, <<16777272, 120>>,  \* Key_F7..F9
      <<16777273, 121>>, <<16777274, 122>>, <<16777275, 123>> } \* Key_F10..F12

\* RDPDisplayWidget::convertQtKeyToRDP
convertQtKeyToRDP(qtKey) ==
    IF \E e \in DisplayKeyTable : e[1] = qtKey
    THEN (CHOOSE e \in DisplayKeyTable : e[1] = qtKey)[2]
    ELSE IF qtKey >= 32 /\ qtKey <= 126 THEN qtKey
    ELSE 0

\* RDPDisplayWidget::setZoomLevel: the zoom level afterwards
setZoomLevel(current, zoom) ==
    IF (~IsNaN(zoom) /\ zoom < 1) \/ (~IsNaN(zoom) /\ zoom > 50) THEN current ELSE zoom

\* the connections MainWindow::setupCentralWidget makes from the display
\* widget's signals to the bridge: the text messages a signal leads to
setupCentralWidget(ws, signal) ==
    CASE signal[1] = "mouseEvent" ->
             sendMouseEvent(ws, signal[2][1], signal[2][2], signal[2][3], signal[2][4])
      [] signal[1] = "keyEvent" -> sendKeyEvent(ws, signal[2][1], signal[2][2])
      [] OTHER -> <<>>

\* what the user and the window system feed the widget
\* inside the image; left of the widget and below it
LocalPoints == {<<400, 300>>, <<-5, 700>>}
InputButtons == {"LeftButton", "MiddleButton"}
QtKeys == {65, 16777248}   \* 'A', Key_Shift
WheelDeltas == {120}

(***************************************************************************)
(* InputHandler: the second translator of keys and mouse buttons.  The     *)
(* program constructs no InputHandler; its handlers are given as operators *)
(* that return the signals a call emits.                                   *)
(***************************************************************************)
\* the named keys of InputHandler::convertQtKeyToRDP, <<Qt::Key, RDP key>>
InputHandlerKeyTable ==
    { <<16777216, 27>>,  \* Key_Escape    -> 0x1B
      <<16777217, 9>>,   \* Key_Tab       -> 0x09
      <<16777252, 20>>,  \* Key_CapsLock  -> 0x14
      <<16777248, 16>>,  \* Key_Shift     -> 0x10
      <<16777249, 17>>,  \* Key_Control   -> 0x11
      <<16777251, 18>>,  \* Key_Alt       -> 0x12
      <<16777219, 8>>,   \* Key_Backspace -> 0x08
      <<16777220, 13>>,  \* Key_Return    -> 0x0D
      <<16777221, 13>>,  \* Key_Enter     -> 0x0D
      <<32, 32>>,        \* Key_Space     -> 0x20
      <<16777234, 37>>,  \* Key_Left      -> 0x25
      <<16777235, 38>>,  \* Key_Up        -> 0x26
      <<16777236, 39>>,  \* Key_Right     -> 0x27
      <<16777237, 40>>,  \* Key_Down      -> 0x28
      <<16777222, 45>>,  \* Key_Insert    -> 0x2D
      <<16777223, 46>>,  \* Key_Delete    -> 0x2E
      <<16777232, 36>>,  \* Key_Home      -> 0x24
      <<16777233, 35>>,  \* Key_End       -> 0x23
      <<16777238, 33>>,  \* Key_PageUp    -> 0x21
      <<16777239, 34>>,  \* Key_PageDown  -> 0x22
      <<16777264, 112>>, <<16777265, 113>>, <<16777266, 114>>,  \* Key_F1..F3
      <<16777267, 115>>, <<16777268, 116>>, <<16777269, 117>>,  \* Key_F4..F6
      <<16777270, 118>>, <<16777271, 119>>, <<16777272, 120>>,  \* Key_F7..F9
      <<16777273, 121>>, <<16777274, 122>>, <<16777275, 123>> } \* Key_F10..F12

\* InputHandler::convertQtKeyToRDP: Key_A..Key_Z are 0x41..0x5a and map to
\* 'A'..'Z', Key_0..Key_9 are 0x30..0x39 and map to '0'..'9'
InputHandler_convertQtKeyToRDP(qtKey) ==
    IF \E e \in InputHandlerKeyTable : e[1] = qtKey
    THEN (CHOOSE e \in InputHandlerKeyTable : e[1] = qtKey)[2]
    ELSE IF qtKey >= 65 /\ qtKey <= 90 THEN qtKey - 65 + 65
    ELSE IF qtKey >= 48 /\ qtKey <= 57 THEN qtKey - 48 + 48
    ELSE 0

\* InputHandler::convertQtMouseButton
InputHandler_convertQtMouseButton(button) ==
    CASE button = "LeftButton" -> 1
      [] button = "RightButton" -> 2
      [] button = "MiddleButton" -> 4
      [] button = "XButton1" -> 8
      [] button = "XButton2" -> 16
      [] OTHER -> 0

\* InputHandler::handleKeyEvent followed by InputHandler::sendKeyEvent: the
\* signals emitted for a key event while input is or is not captured
handleKeyEvent(m_inputCaptured, key, pressed) ==
    LET rdpKey == InputHandler_convertQtKeyToRDP(key)
    IN  IF ~m_inputCaptured THEN <<>>
        ELSE IF rdpKey = 0 THEN <<>>
        ELSE <<Emit("inputEventSent", <<"keyboard", rdpKey, pressed>>),
               Emit("keyEvent", <<rdpKey, pressed>>)>>


(***************************************************************************)
(* MainWindow: the menu bar, the tool bar and the actions.  A title is the *)
(* sequence of its characters.                                             *)
(***************************************************************************)
UpperCase == <<"A", "B", "C", "D", "E", "F", "G", "H", "I", "J", "K", "L", "M", "N", "O", "P", "Q", "R", "S", "T", "U", "V", "W", "X", "Y", "Z">>
LowerCase == <<"a", "b", "c", "d", "e", "f", "g", "h", "i", "j", "k", "l", "m", "n", "o", "p", "q", "r", "s", "t", "u", "v", "w", "x", "y", "z">>
\* QChar::toCaseFolded for the characters of the titles
ToLower(c) ==
    IF \E i \in DOMAIN UpperCase : UpperCase[i] = c
    THEN LowerCase[CHOOSE i \in DOMAIN UpperCase : UpperCase[i] = c]
    ELSE c
\* QString::contains(needle, Qt::CaseInsensitive)
ContainsCI(text, needle) ==
    \E k \in 0..(Len(text) - Len(needle)) :
        \A j \in 1..Len(needle) : ToLower(text[k + j]) = ToLower(needle[j])

\* MainWindow::setupMenuBar: the top-level menus it adds, in order
setupMenuBar ==
    << <<"&", "F", "i", "l", "e">>,
       <<"&", "C", "o", "n", "n", "e", "c", "t", "i", "o", "n">>,
       <<"&", "V", "i", "e", "w">>,
       <<"&", "T", "o", "o", "l", "s">>,
       <<"&", "H", "e", "l", "p">> >>

\* MainWindow::setupToolBar: the actions of "Main Toolbar", in order
setupToolBar == <<"Connect", "Disconnect", "separator", "Settings", "Performance",
                  "separator", "Fullscreen">>
\* QToolBar children of the main window: one tool bar
ToolBars == <<setupToolBar>>
\* MainWindow::createActions: the actions it disables
createActionsDisabled == {"Disconnect"}
\* QAction::isEnabled of a tool-bar action, given the two actions
\* updateConnectionStatus enables and disables
ActionEnabled(name, connectOn, disconnectOn) ==
    CASE name = "Connect" -> connectOn
      [] name = "Disconnect" -> disconnectOn
      [] OTHER -> TRUE

\* MainWindow::updateRecentConnectionsMenu: the menu bar afterwards
updateRecentConnectionsMenu(menus, recentMenu) ==
    IF recentMenu = "null"
    THEN Append(menus, <<"R", "e", "c", "e", "n", "t", " ",
                         "C", "o", "n", "n", "e", "c", "t", "i", "o", "n", "s">>)
    ELSE menus

\* the arguments of a connection request of the connection dialog
ConnectOptions == {<<<<"colorDepth", "32">>>>, <<<<"colorDepth", "16">>>>}
\* the server field of the connection dialog, trimmed
DialogServers == {"", "host"}


(***************************************************************************)
(* QSettings and QVariant.  A store maps each key to the text kept for it, *)
(* or to Unset; a bool or an int written to the store is read back through *)
(* QVariant::toBool and QVariant::toInt.                                   *)
(***************************************************************************)
Unset == "(unset)"
\* QVariant(bool) and QVariant(int) as QSettings keeps them
VariantOfBool(b) == IF b THEN "true" ELSE "false"
VariantOfInt(n) == ToString(n)
\* QVariant::toBool of a text: false for "", "0" and "false"
VariantToBool(v) == v \notin {"", "0", "false"}
\* QVariant::toInt of a text: the number it spells, or 0
VariantToInt(v) ==
    IF \E n \in -1..(ComboItems + 1) : ToString(n) = v
    THEN CHOOSE n \in -1..(ComboItems + 1) : ToString(n) = v
    ELSE 0
\* QSettings::value(key, defaultValue)
SettingsValue(store, key, defaultValue) ==
    IF store[key] = Unset THEN defaultValue ELSE store[key]
\* QComboBox::setCurrentIndex: an index the box does not have selects nothing
setCurrentIndex(index) == IF index >= 0 /\ index < ComboItems THEN index ELSE -1

(***************************************************************************)
(* SettingsDialog.  A widget is named by the key it is saved under.        *)
(***************************************************************************)
\* the checkboxes, with the default loadSettings gives each
SdCheckDefaults ==
    { <<"startup/minimized", FALSE>>, <<"startup/autoConnect", FALSE>>,
      <<"startup/checkUpdates", TRUE>>, <<"security/enableEncryption", TRUE>>,
      <<"security/requireEncryption", FALSE>>, <<"security/enableNLA", TRUE>>,
      <<"security/verifyCertificates", TRUE>>, <<"security/warnOnCertMismatch", TRUE>>,
      <<"performance/hardwareAcceleration", TRUE>>, <<"performance/bitmapCaching", TRUE>>,
      <<"performance/compression", TRUE>> }
\* the combo boxes, with the default loadSettings gives each
SdComboDefaults ==
    { <<"display/colorDepth", 1>>, <<"display/resolution", 0>>,
      <<"performance/imageQuality", 1>> }
SdChecks == {e[1] : e \in SdCheckDefaults}
SdCombos == {e[1] : e \in SdComboDefaults}
SdKeys == SdChecks \cup SdCombos
SdCheckDefault(k) == (CHOOSE e \in SdCheckDefaults : e[1] = k)[2]
SdComboDefault(k) == (CHOOSE e \in SdComboDefaults : e[1] = k)[2]

\* SettingsDialog::loadSettings: the widgets afterwards
sd_loadSettings(store) ==
    [k \in SdKeys |->
        IF k \in SdChecks
        THEN VariantToBool(SettingsValue(store, k, VariantOfBool(SdCheckDefault(k))))
        ELSE setCurrentIndex(
                 VariantToInt(SettingsValue(store, k, VariantOfInt(SdComboDefault(k)))))]

\* saveSettings writing security/requireEncryption from the wrong checkbox
sd_saveSettings_WrongCheckBox(ui, store) ==
    [k \in SdKeys |->
        IF k \in SdChecks
        THEN VariantOfBool(ui[IF k = "security/requireEncryption"
                              THEN "security/enableEncryption" ELSE k])
        ELSE VariantOfInt(ui[k])]

\* SettingsDialog::saveSettings: the store afterwards
sd_saveSettings(ui, store) ==
    [k \in SdKeys |-> IF k \in SdChecks THEN VariantOfBool(ui[k]) ELSE VariantOfInt(ui[k])]

\* SettingsDialog::saveSettings: m_currentSettings afterwards, each value
\* under "group/name"
sd_settingsJson(ui) == [k \in SdKeys |-> ui[k]]

\* SettingsDialog::updateUI: okButton->isEnabled()
sd_updateUI(modified) == modified

\* the stores a run of the program can find: none written yet, or one
\* written by hand
SdEmptyStore == [k \in SdKeys |-> Unset]
SdEditedStore ==
    [k \in SdKeys |-> IF k \in SdChecks THEN "0"
                      ELSE IF k = "display/resolution" THEN "-1" ELSE "2"]
SdStores == {SdEmptyStore, SdEditedStore}

(***************************************************************************)
(* VirtualChannelDialog.                                                   *)
(***************************************************************************)
\* the ten checkboxes, with the default loadSettings gives each
VcDefaults ==
    { <<"clipboard/enabled", TRUE>>, <<"clipboard/text", TRUE>>,
      <<"clipboard/images", TRUE>>, <<"clipboard/files", FALSE>>,
      <<"audio/enabled", TRUE>>, <<"audio/playback", TRUE>>,
      <<"audio/recording", FALSE>>, <<"devices/drive", FALSE>>,
      <<"devices/printer", FALSE>>, <<"devices/port", FALSE>> }
VcKeys == {e[1] : e \in VcDefaults}
VcDefault(k) == (CHOOSE e \in VcDefaults : e[1] = k)[2]

\* VirtualChannelDialog::loadSettings: the checkboxes afterwards
vc_loadSettings(store) ==
    [k \in VcKeys |-> VariantToBool(SettingsValue(store, k, VariantOfBool(VcDefault(k))))]

\* VirtualChannelDialog::saveSettings: the store afterwards
vc_saveSettings(ui, store) == [k \in VcKeys |-> VariantOfBool(ui[k])]

\* VirtualChannelDialog::saveSettings: m_currentSettings afterwards
vc_settingsJson(ui) ==
    [clipboard |-> [enabled |-> ui["clipboard/enabled"], text |-> ui["clipboard/text"],
                    images |-> ui["clipboard/images"], files |-> ui["clipboard/files"]],
     audio |-> [enabled |-> ui["audio/enabled"], playback |-> ui["audio/playback"],
                recording |-> ui["audio/recording"]],
     devices |-> [drive |-> ui["devices/drive"], printer |-> ui["devices/printer"],
                  port |-> ui["devices/port"]]]

\* onApplyClicked looking at drive redirection only
vc_onApplyClicked_DriveOnly(ui) ==
    << Emit("clipboardToggled", ui["clipboard/enabled"]),
       Emit("audioToggled", ui["audio/enabled"]),
       Emit("deviceRedirectionToggled", ui["devices/drive"]) >>

\* VirtualChannelDialog::onApplyClicked: the signals after saveSettings
vc_onApplyClicked(ui) ==
    << Emit("clipboardToggled", ui["clipboard/enabled"]),
       Emit("audioToggled", ui["audio/enabled"]),
       Emit("deviceRedirectionToggled",
            ui["devices/drive"] \/ ui["devices/printer"] \/ ui["devices/port"]) >>

\* VirtualChannelDialog::updateUI: applyButton->isEnabled()
vc_updateUI(modified) == modified

\* QWidget::isEnabled of a checkbox: updateUI, onClipboardToggled and
\* onAudioToggled enable the sub-options with their group's checkbox
VcWidgetEnabled(ui, k) ==
    CASE k \in {"clipboard/text", "clipboard/images", "clipboard/files"} ->
             ui["clipboard/enabled"]
      [] k \in {"audio/playback", "audio/recording"} -> ui["audio/enabled"]
      [] OTHER -> TRUE

\* the slot connected to the toggled signal of checkbox k: the signals it emits
VcToggledSlot(k, checked) ==
    CASE k = "clipboard/enabled" -> <<Emit("clipboardToggled", checked)>>
      [] k = "audio/enabled" -> <<Emit("audioToggled", checked)>>
      [] OTHER -> <<>>

VcEmptyStore == [k \in VcKeys |-> Unset]
VcAllOnStore == [k \in VcKeys |-> "true"]
VcStores == {VcEmptyStore, VcAllOnStore}


(***************************************************************************)
(* The state after construction.                                           *)
(***************************************************************************)
\* the value of a field no constructor initialises; the program never reads it
Indeterminate == "indeterminate"
\* a GoRDPBridge as its constructor leaves it (gordp_bridge.cpp:9-43)
NewBridge == [m_apiRunning |-> FALSE, m_isConnected |-> FALSE,
              procState |-> "NotRunning", wsState |-> "Unconnected",
              httpOutstanding |-> 0,
              connectionInfo |-> <<"", Indeterminate, "">>]

\* MainWindow::MainWindow, which ends with m_gordpBridge->startGoRDPAPI(),
\* and RDPDisplayWidget::RDPDisplayWidget
InitApp(exe, outcome) ==
    LET r == startGoRDPAPI(NewBridge.m_apiRunning, NewBridge.procState,
                           NewBridge.wsState, exe, outcome)
    IN  /\ exePresent = exe
        /\ m_apiRunning = r.api
        /\ procState = r.proc
        /\ wsState = r.ws
        /\ m_isConnected = NewBridge.m_isConnected
        /\ m_lastPerformanceStats = JObject(<<>>)
        /\ httpOutstanding = NewBridge.httpOutstanding
        /\ wsSent = <<>>
        /\ m_currentServer = NewBridge.connectionInfo[1]
        /\ m_currentPort = NewBridge.connectionInfo[2]
        /\ m_currentUsername = NewBridge.connectionInfo[3]
        /\ userDisconnected = FALSE
        /\ lastCloseEvent = "none"
        /\ mw_isConnected = FALSE
        /\ connectActionEnabled = ("Connect" \notin createActionsDisabled)
        /\ disconnectActionEnabled = ("Disconnect" \notin createActionsDisabled)
        /\ statusTimerActive = FALSE
        /\ statusBarMessage = StatusAfter("Ready", r.sigs)
        /\ menuBarMenus = setupMenuBar
        /\ m_recentConnectionsMenu = "null"
        /\ m_connectionDialog = "null"
        /\ m_remoteResolution = <<1024, 768>>
        /\ m_displayPixmap = BlackPixmap(<<1024, 768>>)
        /\ m_zoomLevel = 10
        /\ widgetRect = <<800, 600>>
        /\ m_pressedButtons = {}
        /\ testBridges = <<>>
        /\ availCheck = "pending"
        /\ op = "MainWindow"
        /\ sig = r.sigs
        /\ boxes = BoxesFor(r.sigs)
        /\ posted = <<>>

\* SettingsDialog::SettingsDialog over the store it finds
InitSettingsDialog(store) ==
    /\ sd_store = store
    /\ sd_ui = sd_loadSettings(store)
    /\ sd_modified = FALSE
    /\ sd_okEnabled = sd_updateUI(FALSE)
    /\ sd_currentSettings = <<>>
    /\ sd_edits = 0

\* VirtualChannelDialog::VirtualChannelDialog over the store it finds
InitVirtualChannelDialog(store) ==
    /\ vc_store = store
    /\ vc_ui = vc_loadSettings(store)
    /\ vc_modified = FALSE
    /\ vc_applyEnabled = vc_updateUI(FALSE)
    /\ vc_currentSettings = <<>>
    /\ vc_edits = 0

Init ==
    /\ \E exe \in BOOLEAN, outcome \in StartOutcomes : InitApp(exe, outcome)
    /\ InitSettingsDialog(SdEmptyStore)
    /\ InitVirtualChannelDialog(VcEmptyStore)


(***************************************************************************)
(* Actions of the bridge owned by the main window.                         *)
(***************************************************************************)
\* a call of the public method GoRDPBridge::startGoRDPAPI (the main window
\* calls it from its constructor; the method itself can be called again)
StartGoRDPAPI ==
    \E outcome \in StartOutcomes :
        LET r == startGoRDPAPI(m_apiRunning, procState, wsState, exePresent, outcome)
        IN  /\ m_apiRunning' = r.api
            /\ procState' = r.proc
            /\ wsState' = r.ws
            /\ React(r.sigs)
            /\ op' = "startGoRDPAPI"
            /\ posted' = <<>>
            /\ UNCHANGED <<m_isConnected, m_lastPerformanceStats, httpOutstanding,
                           wsSent, exePresent, connectionInfo, RestOfWindow,
                           otherBridgeVars, Dialogs, userDisconnected>>

\* a call of GoRDPBridge::stopGoRDPAPI
StopGoRDPAPI ==
    \E outcome \in StopOutcomes :
        LET r == stopGoRDPAPI(procState, wsState, outcome)
        IN  /\ m_apiRunning' = r.api
            /\ m_isConnected' = r.conn
            /\ procState' = r.proc
            /\ wsState' = r.ws
            /\ React(r.sigs)
            /\ op' = "stopGoRDPAPI"
            /\ posted' = <<>>
            /\ UNCHANGED <<m_lastPerformanceStats, httpOutstanding, wsSent, exePresent,
                           connectionInfo, RestOfWindow, otherBridgeVars, Dialogs,
                           userDisconnected>>

\* the engine, still starting when waitForStarted gave up, has started
ProcessStarted ==
    /\ procState = "Starting"
    /\ procState' = "Running"
    /\ React(<<>>)
    /\ op' = "processStarted"
    /\ posted' = <<>>
    /\ UNCHANGED <<m_apiRunning, m_isConnected, m_lastPerformanceStats, wsState,
                   httpOutstanding, wsSent, exePresent, connectionInfo, RestOfWindow,
                   otherBridgeVars, Dialogs, userDisconnected>>

\* QProcess::errorOccurred: a start that fails, a crash (followed by
\* QProcess::finished), or an error of a process that goes on running
ProcessErrorOccurred ==
    \E error \in ProcessErrors, code \in SignalExitCodes :
        /\ procState = (IF error = "FailedToStart" THEN "Starting" ELSE "Running")
        /\ procState' = (IF error \in NonFatalErrors THEN procState ELSE "NotRunning")
        /\ m_apiRunning' = (IF error = "Crashed" THEN onProcessFinished(code).api
                            ELSE onProcessError(error).api)
        /\ React(onProcessError(error).sigs
                 \o (IF error = "Crashed" THEN onProcessFinished(code).sigs ELSE <<>>))
        /\ op' = "onProcessError"
        /\ posted' = <<>>
        /\ UNCHANGED <<m_isConnected, m_lastPerformanceStats, wsState, httpOutstanding,
                       wsSent, exePresent, connectionInfo, RestOfWindow,
                       otherBridgeVars, Dialogs, userDisconnected>>

\* QProcess::finished: the engine exits
ProcessExited ==
    \E code \in ExitCodes :
        /\ procState = "Running"
        /\ procState' = "NotRunning"
        /\ m_apiRunning' = onProcessFinished(code).api
        /\ React(onProcessFinished(code).sigs)
        /\ op' = "onProcessFinished"
        /\ posted' = <<>>
        /\ UNCHANGED <<m_isConnected, m_lastPerformanceStats, wsState, httpOutstanding,
                       wsSent, exePresent, connectionInfo, RestOfWindow,
                       otherBridgeVars, Dialogs, userDisconnected>>

\* QWebSocket::connected: onWebSocketConnected only logs
WsConnected ==
    /\ wsState = "Connecting"
    /\ wsState' = "Connected"
    /\ React(<<>>)
    /\ op' = "onWebSocketConnected"
    /\ posted' = <<>>
    /\ UNCHANGED <<m_apiRunning, m_isConnected, m_lastPerformanceStats, procState,
                   httpOutstanding, wsSent, exePresent, connectionInfo, RestOfWindow,
                   otherBridgeVars, Dialogs, userDisconnected>>

\* QWebSocket::disconnected: onWebSocketDisconnected only logs
WsDisconnected ==
    /\ wsState # "Unconnected"
    /\ wsState' = "Unconnected"
    /\ React(<<>>)
    /\ op' = "onWebSocketDisconnected"
    /\ posted' = <<>>
    /\ UNCHANGED <<m_apiRunning, m_isConnected, m_lastPerformanceStats, procState,
                   httpOutstanding, wsSent, exePresent, connectionInfo, RestOfWindow,
                   otherBridgeVars, Dialogs, userDisconnected>>

\* QWebSocket::textMessageReceived with message
WsTextReceived(message) ==
    LET r == onWebSocketTextMessageReceived(message, m_isConnected)
    IN  /\ wsState = "Connected"
        /\ m_isConnected' = r.conn
        /\ React(r.sigs)
        /\ op' = "onWebSocketTextMessageReceived"
        /\ posted' = <<>>
        /\ UNCHANGED <<m_apiRunning, m_lastPerformanceStats, procState, wsState,
                       httpOutstanding, wsSent, exePresent, connectionInfo,
                       RestOfWindow, otherBridgeVars, Dialogs, userDisconnected>>

WsTextMessage == \E message \in Texts : WsTextReceived(message)

\* QWebSocket::binaryMessageReceived with message
WsBinaryReceived(message) ==
    /\ wsState = "Connected"
    /\ React(onWebSocketBinaryMessageReceived(message))
    /\ op' = "onWebSocketBinaryMessageReceived"
    /\ posted' = <<>>
    /\ UNCHANGED <<bridgeVars, RestOfWindow, otherBridgeVars, Dialogs,
                   userDisconnected>>

WsBinaryMessage == \E message \in Frames : WsBinaryReceived(message)

\* QNetworkAccessManager::finished with reply, the answer to one of the
\* outstanding requests
HttpReplyFinished(reply) ==
    LET r == onNetworkReplyFinished(reply, m_isConnected, m_lastPerformanceStats)
    IN  /\ httpOutstanding > 0
        /\ httpOutstanding' = httpOutstanding - 1
        /\ m_isConnected' = r.conn
        /\ m_lastPerformanceStats' = r.perf
        /\ React(r.sigs)
        /\ op' = "onNetworkReplyFinished"
        /\ posted' = <<>>
        /\ UNCHANGED <<m_apiRunning, procState, wsState, wsSent, exePresent,
                       connectionInfo, RestOfWindow, otherBridgeVars, Dialogs,
                       userDisconnected>>

HttpReply == \E reply \in Replies : HttpReplyFinished(reply)

(***************************************************************************)
(* Actions of the main window.                                             *)
(***************************************************************************)
\* MainWindow::onConnectClicked, through the Connect action
ConnectClicked ==
    /\ connectActionEnabled
    /\ m_connectionDialog' = "shown"
    /\ React(<<>>)
    /\ op' = "onConnectClicked"
    /\ posted' = <<>>
    /\ UNCHANGED <<bridgeVars, menuBarMenus, m_recentConnectionsMenu, lastCloseEvent,
                   m_zoomLevel, widgetRect, m_pressedButtons, otherBridgeVars, Dialogs,
                   userDisconnected>>

\* ConnectionDialog::onConnectClicked: connectRequested runs the lambda of
\* MainWindow::onConnectClicked, which calls connectToServer; accept() follows
DialogConnectClicked ==
    \E server \in DialogServers, options \in ConnectOptions :
        LET r == connectToServer(m_apiRunning, connectionInfo, server, 3389, "user",
                                 "secret", options)
        IN  /\ m_connectionDialog = "shown"
            /\ IF server = ""
               THEN /\ UNCHANGED <<httpOutstanding, m_connectionDialog, sig,
                                   statusBarMessage, mw_isConnected,
                                   connectActionEnabled, disconnectActionEnabled,
                                   statusTimerActive, m_displayPixmap,
                                   m_remoteResolution>>
                    /\ posted' = <<>>
                    /\ boxes' = <<<<"warning", "Error", "Please enter a server address.">>>>
                    /\ UNCHANGED <<connectionInfo, userDisconnected>>
               ELSE /\ httpOutstanding + Len(r.posts) <= MaxOutstanding
                    /\ httpOutstanding' = httpOutstanding + Len(r.posts)
                    /\ m_currentServer' = r.cur[1]
                    /\ m_currentPort' = r.cur[2]
                    /\ m_currentUsername' = r.cur[3]
                    /\ posted' = r.posts
                    /\ React(r.sigs)
                    /\ m_connectionDialog' = "hidden"
                    /\ userDisconnected' = FALSE
            /\ op' = IF server = "" THEN "connectRefused" ELSE "connectRequested"
            /\ UNCHANGED <<m_apiRunning, m_isConnected, m_lastPerformanceStats,
                           procState, wsState, wsSent, exePresent, menuBarMenus,
                           m_recentConnectionsMenu, lastCloseEvent, m_zoomLevel,
                           widgetRect, m_pressedButtons, otherBridgeVars, Dialogs>>

\* ConnectionDialog::onCancelClicked
DialogCancelClicked ==
    /\ m_connectionDialog = "shown"
    /\ m_connectionDialog' = "hidden"
    /\ React(<<>>)
    /\ op' = "onCancelClicked"
    /\ posted' = <<>>
    /\ UNCHANGED <<bridgeVars, menuBarMenus, m_recentConnectionsMenu, lastCloseEvent,
                   m_zoomLevel, widgetRect, m_pressedButtons, otherBridgeVars, Dialogs,
                   userDisconnected>>

\* MainWindow::onDisconnectClicked, through the Disconnect action
DisconnectClicked ==
    LET r == disconnectFromServer(m_isConnected)
    IN  /\ disconnectActionEnabled
        /\ httpOutstanding + Len(r.posts) <= MaxOutstanding
        /\ httpOutstanding' = httpOutstanding + Len(r.posts)
        /\ m_isConnected' = r.conn
        /\ posted' = r.posts
        /\ React(r.sigs)
        /\ op' = "disconnectFromServer"
        /\ userDisconnected' = (userDisconnected \/ (m_isConnected /\ ~r.conn))
        /\ UNCHANGED <<m_apiRunning, m_lastPerformanceStats, procState, wsState,
                       wsSent, exePresent, connectionInfo, RestOfWindow,
                       otherBridgeVars, Dialogs>>

\* the lambda connected to m_statusTimer's timeout (mainwindow.cpp:85-89)
StatusTimerTick ==
    LET posts == IF mw_isConnected THEN getConnectionStatus ELSE <<>>
    IN  /\ statusTimerActive
        /\ httpOutstanding + Len(posts) <= MaxOutstanding
        /\ httpOutstanding' = httpOutstanding + Len(posts)
        /\ posted' = posts
        /\ React(<<>>)
        /\ op' = "statusTimer"
        /\ UNCHANGED <<m_apiRunning, m_isConnected, m_lastPerformanceStats, procState,
                       wsState, wsSent, exePresent, connectionInfo, RestOfWindow,
                       otherBridgeVars, Dialogs, userDisconnected>>

\* a call of MainWindow::updateRecentConnectionsMenu.  m_connectionHistory is
\* never initialised: whatever the pointer holds, the menu is created first.
UpdateRecentConnectionsMenu ==
    /\ menuBarMenus' = updateRecentConnectionsMenu(menuBarMenus, m_recentConnectionsMenu)
    /\ m_recentConnectionsMenu' = "menu"
    /\ op' = "updateRecentConnectionsMenu"
    /\ sig' = <<>>
    /\ boxes' = <<>>
    /\ posted' = <<>>
    /\ UNCHANGED <<bridgeVars, mw_isConnected, connectActionEnabled,
                   disconnectActionEnabled, statusTimerActive, statusBarMessage,
                   m_connectionDialog, lastCloseEvent, displayVars, otherBridgeVars,
                   Dialogs, userDisconnected>>

(***************************************************************************)
(* The other GoRDPBridge objects of the program.                           *)
(***************************************************************************)
\* ConnectionDialog::onTestConnectionClicked.  The new bridge has started no
\* engine, so its connectToServer only emits connectionError, to which the
\* dialog connects nothing; the bridge stays a child of the dialog.
TestConnectionClicked ==
    \E server \in DialogServers :
        LET r == connectToServer(NewBridge.m_apiRunning, NewBridge.connectionInfo,
                                 server, 3389, "", "",
                                 <<<<"testMode", TRUE>>, <<"timeout", 10000>>>>)
        IN  /\ m_connectionDialog = "shown"
            /\ IF server = ""
               THEN /\ boxes' = <<<<"warning", "Error", "Please enter a server address.">>>>
                    /\ UNCHANGED testBridges
               ELSE /\ Len(testBridges) < MaxTestBridges
                    /\ boxes' = <<>>
                    /\ testBridges' = Append(testBridges,
                           [NewBridge EXCEPT !.httpOutstanding = Len(r.posts),
                                             !.connectionInfo = r.cur]
                               @@ [timer |-> TRUE, sigs |-> r.sigs])
            /\ op' = "onTestConnectionClicked"
            /\ sig' = <<>>
            /\ posted' = <<>>
            /\ UNCHANGED <<bridgeVars, mwVars, displayVars, availCheck, Dialogs,
                           userDisconnected>>

\* the single-shot timer of onTestConnectionClicked fires.  Its lambda reads
\* progress and testBridge through references to locals of a call that has
\* returned: it may find the dialog invisible and do nothing, or show the
\* box and release the bridge, whose destructor runs stopGoRDPAPI.
TestConnectionTimeout ==
    \E i \in DOMAIN testBridges, visible \in BOOLEAN :
        /\ testBridges[i].timer
        /\ IF visible
           THEN /\ testBridges' = [j \in 1..(Len(testBridges) - 1) |->
                                      IF j < i THEN testBridges[j] ELSE testBridges[j + 1]]
                /\ boxes' = <<<<"warning", "Test Connection", "timed out">>>>
           ELSE /\ testBridges' = [testBridges EXCEPT ![i].timer = FALSE]
                /\ boxes' = <<>>
        /\ op' = "testConnectionTimeout"
        /\ sig' = <<>>
        /\ posted' = <<>>
        /\ UNCHANGED <<bridgeVars, mwVars, displayVars, availCheck, Dialogs,
                       userDisconnected>>

\* the single-shot lambda of main(): a GoRDPBridge on its stack, which lives
\* while the warning box is open
AvailabilityCheck ==
    /\ availCheck = "pending"
    /\ availCheck' = IF exePresent THEN "done" ELSE "warning"
    /\ boxes' = IF exePresent THEN <<>>
                ELSE <<<<"warning", "GoRDP Core Not Found", "">>>>
    /\ op' = "checkGoRDPAvailability"
    /\ sig' = <<>>
    /\ posted' = <<>>
    /\ UNCHANGED <<bridgeVars, mwVars, displayVars, testBridges, Dialogs,
                   userDisconnected>>

\* the user closes the warning box of main(): the lambda returns
AvailabilityWarningClosed ==
    /\ availCheck = "warning"
    /\ availCheck' = "done"
    /\ boxes' = <<>>
    /\ op' = "availabilityWarningClosed"
    /\ sig' = <<>>
    /\ posted' = <<>>
    /\ UNCHANGED <<bridgeVars, mwVars, displayVars, testBridges, Dialogs,
                   userDisconnected>>

\* the engine and its bridge, with the main window's reactions
Next ==
    \/ StartGoRDPAPI
    \/ StopGoRDPAPI
    \/ ProcessStarted
    \/ ProcessErrorOccurred
    \/ ProcessExited
    \/ WsConnected
    \/ WsDisconnected
    \/ WsTextMessage
    \/ HttpReply
    \/ ConnectClicked
    \/ DialogConnectClicked
    \/ DialogCancelClicked
    \/ DisconnectClicked
    \/ StatusTimerTick

Spec == Init /\ [][Next]_vars

(***************************************************************************)
(* The display widget: its event handlers, and bitmaps arriving for it.    *)
(***************************************************************************)
\* an event handler of the widget emits signal: the slot MainWindow
\* connected to it, if any, runs
DisplayEvent(name, signal) ==
    /\ Len(wsSent) < MaxSent
    /\ wsSent' = wsSent \o setupCentralWidget(wsState, signal)
    /\ op' = name
    /\ sig' = <<signal>>
    /\ boxes' = <<>>
    /\ posted' = <<>>
    /\ UNCHANGED <<m_apiRunning, m_isConnected, m_lastPerformanceStats, procState,
                   wsState, httpOutstanding, exePresent, connectionInfo, mwVars,
                   m_displayPixmap, m_remoteResolution, m_zoomLevel, widgetRect,
                   otherBridgeVars, Dialogs, userDisconnected>>

\* RDPDisplayWidget::mousePressEvent for one position and button
MousePressed(pos, button) ==
        \E remotePoint \in RemotePoints(pos, widgetRect, m_remoteResolution, m_zoomLevel) :
            /\ DisplayEvent("mousePressEvent",
                            Emit("mouseEvent", <<remotePoint[1], remotePoint[2],
                                                 convertQtMouseButton(button), TRUE>>))
            /\ m_pressedButtons' = m_pressedButtons \cup {button}

\* RDPDisplayWidget::mousePressEvent
MousePressEvent == \E pos \in LocalPoints, button \in InputButtons : MousePressed(pos, button)

\* RDPDisplayWidget::mouseReleaseEvent
MouseReleaseEvent ==
    \E pos \in LocalPoints, button \in InputButtons :
        \E remotePoint \in RemotePoints(pos, widgetRect, m_remoteResolution, m_zoomLevel) :
            /\ DisplayEvent("mouseReleaseEvent",
                            Emit("mouseEvent", <<remotePoint[1], remotePoint[2],
                                                 convertQtMouseButton(button), FALSE>>))
            /\ m_pressedButtons' = m_pressedButtons \ {button}

\* RDPDisplayWidget::mouseMoveEvent
MouseMoveEvent ==
    \E pos \in LocalPoints :
        \E remotePoint \in RemotePoints(pos, widgetRect, m_remoteResolution, m_zoomLevel) :
            /\ DisplayEvent("mouseMoveEvent",
                            Emit("mouseEvent", <<remotePoint[1], remotePoint[2], 0, FALSE>>))
            /\ UNCHANGED m_pressedButtons

\* RDPDisplayWidget::wheelEvent
WheelEvent ==
    \E delta \in WheelDeltas :
        /\ DisplayEvent("wheelEvent", Emit("wheelEvent", <<delta>>))
        /\ UNCHANGED m_pressedButtons

\* RDPDisplayWidget::keyPressEvent for one key
KeyPressed(key) ==
    /\ DisplayEvent("keyPressEvent", Emit("keyEvent", <<convertQtKeyToRDP(key), TRUE>>))
    /\ UNCHANGED m_pressedButtons

\* RDPDisplayWidget::keyPressEvent
KeyPressEvent == \E key \in QtKeys : KeyPressed(key)

\* RDPDisplayWidget::keyReleaseEvent
KeyReleaseEvent ==
    \E key \in QtKeys :
        /\ DisplayEvent("keyReleaseEvent", Emit("keyEvent", <<convertQtKeyToRDP(key), FALSE>>))
        /\ UNCHANGED m_pressedButtons

\* the events of the display widget and of the WebSocket behind it
NextDisplay ==
    \/ WsConnected
    \/ WsDisconnected
    \/ WsBinaryMessage
    \/ MousePressEvent
    \/ MouseReleaseEvent
    \/ MouseMoveEvent
    \/ WheelEvent
    \/ KeyPressEvent
    \/ KeyReleaseEvent

SpecDisplay == Init /\ [][NextDisplay]_vars

\* the zoom levels setZoomLevel is called with, in tenths: -1.0, 0.0, 0.1,
\* 0.5, 2.0, 5.0, 5.1 and a value that is not a number
ZoomInputs == {-10, 0, 1, 5, 20, 50, 51, NaN}

\* RDPDisplayWidget::setZoomLevel called with one value
SetZoomLevelCall(zoom) ==
    /\ m_zoomLevel' = setZoomLevel(m_zoomLevel, zoom)
    /\ op' = "setZoomLevel"
    /\ sig' = <<>>
    /\ boxes' = <<>>
    /\ posted' = <<>>
    /\ UNCHANGED <<bridgeVars, mwVars, m_displayPixmap, m_remoteResolution, widgetRect,
                   m_pressedButtons, otherBridgeVars, Dialogs, userDisconnected>>

\* RDPDisplayWidget::setZoomLevel, a public method no code of the program
\* calls
SetZoomLevel == \E zoom \in ZoomInputs : SetZoomLevelCall(zoom)

\* the display widget with its zoom level set from outside, and the pointer
\* events, whose signals call GoRDPBridge::sendMouseEvent
NextPointer ==
    \/ SetZoomLevel
    \/ MousePressEvent
    \/ MouseReleaseEvent
    \/ MouseMoveEvent

SpecPointer == Init /\ [][NextPointer]_vars

\* the application around the session: every GoRDPBridge of the program (the
\* main window's, the one of main()'s availability check and those of Test
\* Connection), the connection dialog and the menu bar
NextApplication ==
    \/ StartGoRDPAPI
    \/ StopGoRDPAPI
    \/ ProcessExited
    \/ ConnectClicked
    \/ DialogConnectClicked
    \/ DialogCancelClicked
    \/ TestConnectionClicked
    \/ TestConnectionTimeout
    \/ AvailabilityCheck
    \/ AvailabilityWarningClosed
    \/ UpdateRecentConnectionsMenu

SpecApplication == Init /\ [][NextApplication]_vars

\* the same with the event loop running: a single-shot timer that was set
\* fires
SpecTestConnection ==
    Init /\ [][NextApplication]_vars /\ WF_vars(TestConnectionTimeout)

(***************************************************************************)
(* The public methods of GoRDPBridge called directly, with any arguments,  *)
(* as the recent-connections actions and the tests call them.              *)
(***************************************************************************)
\* arguments of connectToServer
Servers == {"host", "other"}
Options == {<<>>, <<<<"colorDepth", "32">>>>}

\* a call of GoRDPBridge::connectToServer on the main window's bridge
ConnectToServerCall(server, options) ==
    LET r == connectToServer(m_apiRunning, connectionInfo, server, 3389, "user",
                             "secret", options)
    IN  /\ httpOutstanding + Len(r.posts) <= MaxOutstanding
        /\ httpOutstanding' = httpOutstanding + Len(r.posts)
        /\ m_currentServer' = r.cur[1]
        /\ m_currentPort' = r.cur[2]
        /\ m_currentUsername' = r.cur[3]
        /\ posted' = r.posts
        /\ React(r.sigs)
        /\ op' = "connectToServer"
        /\ userDisconnected' = FALSE
        /\ UNCHANGED <<m_apiRunning, m_isConnected, m_lastPerformanceStats, procState,
                       wsState, wsSent, exePresent, RestOfWindow, otherBridgeVars,
                       Dialogs>>

ConnectToServer == \E server \in Servers, options \in Options :
                       ConnectToServerCall(server, options)

\* a call of GoRDPBridge::disconnectFromServer
DisconnectFromServer ==
    LET r == disconnectFromServer(m_isConnected)
    IN  /\ httpOutstanding + Len(r.posts) <= MaxOutstanding
        /\ httpOutstanding' = httpOutstanding + Len(r.posts)
        /\ m_isConnected' = r.conn
        /\ posted' = r.posts
        /\ React(r.sigs)
        /\ op' = "disconnectFromServer"
        /\ userDisconnected' = (userDisconnected \/ (m_isConnected /\ ~r.conn))
        /\ UNCHANGED <<m_apiRunning, m_lastPerformanceStats, procState, wsState, wsSent,
                       exePresent, connectionInfo, RestOfWindow, otherBridgeVars,
                       Dialogs>>

NextBridge ==
    \/ StartGoRDPAPI
    \/ StopGoRDPAPI
    \/ ProcessExited
    \/ ConnectToServer
    \/ DisconnectFromServer
    \/ HttpReply

SpecBridge == Init /\ [][NextBridge]_vars

(***************************************************************************)
(* Closing the main window.                                                *)
(***************************************************************************)
\* the buttons of the question MainWindow::closeEvent asks
CloseAnswers == {"Yes", "No"}

\* closeEvent accepting the event whatever the answer
closeEvent_AlwaysAccepts(connected, reply) ==
    [ask |-> connected, disconnect |-> connected /\ reply = "Yes", accept |-> TRUE]

\* MainWindow::closeEvent: whether it asks, whether it calls
\* disconnectFromServer, and whether it accepts the event
closeEvent(connected, reply) ==
    IF connected
    THEN [ask |-> TRUE, disconnect |-> reply = "Yes", accept |-> reply = "Yes"]
    ELSE [ask |-> FALSE, disconnect |-> FALSE, accept |-> TRUE]

\* the user closes the main window
CloseEvent ==
    \E reply \in CloseAnswers :
        LET c == closeEvent(mw_isConnected, reply)
            r == IF c.disconnect THEN disconnectFromServer(m_isConnected)
                 ELSE [conn |-> m_isConnected, posts |-> <<>>, sigs |-> <<>>]
            u == updateConnectionStatus(ConnectedAfter(FALSE, r.sigs))
        IN  /\ httpOutstanding + Len(r.posts) <= MaxOutstanding
            /\ httpOutstanding' = httpOutstanding + Len(r.posts)
            /\ m_isConnected' = r.conn
            /\ posted' = r.posts
            /\ sig' = r.sigs
            /\ boxes' = (IF c.ask THEN <<<<"question", "Disconnect", reply>>>> ELSE <<>>)
                             \o BoxesFor(r.sigs)
            /\ statusBarMessage' = StatusAfter(statusBarMessage, r.sigs)
            /\ IF Count(r.sigs, "connectionStatusChanged") > 0
               THEN /\ mw_isConnected' = u[1]
                    /\ connectActionEnabled' = u[2]
                    /\ disconnectActionEnabled' = u[3]
                    /\ statusTimerActive' = u[4]
               ELSE UNCHANGED <<mw_isConnected, connectActionEnabled,
                                disconnectActionEnabled, statusTimerActive>>
            /\ lastCloseEvent' = IF c.accept THEN "accepted" ELSE "ignored"
            /\ userDisconnected' = (userDisconnected \/ (m_isConnected /\ ~r.conn))
            /\ op' = "closeEvent"
            /\ UNCHANGED <<m_apiRunning, m_lastPerformanceStats, procState, wsState,
                           wsSent, exePresent, connectionInfo, menuBarMenus,
                           m_recentConnectionsMenu, m_connectionDialog, displayVars,
                           otherBridgeVars, Dialogs>>

\* the window while it is open, and MainWindow::~MainWindow, which runs
\* stopGoRDPAPI, once a close event was accepted and main() returns
NextClose ==
    \/ /\ lastCloseEvent # "accepted"
       /\ \/ CloseEvent
          \/ WsConnected
          \/ WsTextMessage
          \/ HttpReply
          \/ ProcessExited
          \/ ConnectClicked
          \/ DialogConnectClicked
          \/ DisconnectClicked
          \/ StatusTimerTick
    \/ /\ lastCloseEvent = "accepted"
       /\ op # "stopGoRDPAPI"
       /\ StopGoRDPAPI

SpecClose == Init /\ [][NextClose]_vars

(***************************************************************************)
(* The settings dialog.                                                    *)
(***************************************************************************)
AppVars == <<bridgeVars, mwVars, displayVars, otherBridgeVars, userDisconnected>>

\* the user changes a widget: its toggled or currentIndexChanged signal runs
\* SettingsDialog::onSettingsChanged
SdWidgetChanged ==
    \E k \in SdKeys :
        \E v \in IF k \in SdChecks THEN {~sd_ui[k]} ELSE (0..(ComboItems - 1)) \ {sd_ui[k]} :
            /\ sd_edits < MaxEdits
            /\ sd_edits' = sd_edits + 1
            /\ sd_ui' = [sd_ui EXCEPT ![k] = v]
            /\ sd_modified' = TRUE
            /\ sd_okEnabled' = sd_updateUI(TRUE)
            /\ op' = "onSettingsChanged"
            /\ sig' = <<>>
            /\ boxes' = <<>>
            /\ posted' = <<>>
            /\ UNCHANGED <<sd_store, sd_currentSettings, AppVars, vcVars>>

\* what SettingsDialog::saveSettings does
SdSave ==
    /\ sd_store' = sd_saveSettings(sd_ui, sd_store)
    /\ sd_modified' = FALSE
    /\ sd_okEnabled' = sd_updateUI(FALSE)
    /\ sd_currentSettings' = sd_settingsJson(sd_ui)
    /\ sig' = <<Emit("settingsChanged", sd_settingsJson(sd_ui))>>
    /\ UNCHANGED <<sd_ui, sd_edits>>

\* a call of SettingsDialog::saveSettings
SdSaveSettings ==
    /\ SdSave
    /\ op' = "saveSettings"
    /\ boxes' = <<>>
    /\ posted' = <<>>
    /\ UNCHANGED <<AppVars, vcVars>>

\* what SettingsDialog::loadSettings does
SdLoad(store) ==
    /\ sd_ui' = sd_loadSettings(store)
    /\ sd_modified' = FALSE
    /\ sd_okEnabled' = sd_updateUI(FALSE)

\* a call of SettingsDialog::loadSettings
SdLoadSettings ==
    /\ SdLoad(sd_store)
    /\ op' = "loadSettings"
    /\ sig' = <<>>
    /\ boxes' = <<>>
    /\ posted' = <<>>
    /\ UNCHANGED <<sd_store, sd_currentSettings, sd_edits, AppVars, vcVars>>

\* SettingsDialog::onOkClicked
SdOkClicked ==
    /\ sd_okEnabled
    /\ SdSave
    /\ op' = "onOkClicked"
    /\ boxes' = <<>>
    /\ posted' = <<>>
    /\ UNCHANGED <<AppVars, vcVars>>

\* the buttons of a QMessageBox::question
Answers == {"Yes", "No", "Cancel"}

\* SettingsDialog::onCancelClicked
SdCancelClicked ==
    \E answer \in Answers :
        /\ IF sd_modified /\ answer = "Yes"
           THEN SdSave
           ELSE /\ sig' = <<>>
                /\ UNCHANGED settingsVars
        /\ boxes' = IF sd_modified THEN <<<<"question", "Unsaved Changes", answer>>>> ELSE <<>>
        /\ op' = "onCancelClicked"
        /\ posted' = <<>>
        /\ UNCHANGED <<AppVars, vcVars>>

\* SettingsDialog::onResetClicked, that is resetToDefaults
SdResetClicked ==
    \E answer \in Answers \ {"Cancel"} :
        /\ IF answer = "Yes"
           THEN /\ sd_store' = SdEmptyStore
                /\ sd_ui' = sd_loadSettings(SdEmptyStore)
                /\ sd_modified' = TRUE
                /\ sd_okEnabled' = sd_updateUI(TRUE)
                /\ UNCHANGED <<sd_currentSettings, sd_edits>>
           ELSE UNCHANGED settingsVars
        /\ boxes' = <<<<"question", "Reset Settings", answer>>>>
        /\ op' = "onResetClicked"
        /\ sig' = <<>>
        /\ posted' = <<>>
        /\ UNCHANGED <<AppVars, vcVars>>

\* the dialog over any store it can find
InitSettings ==
    /\ InitApp(TRUE, "started")
    /\ \E store \in SdStores : InitSettingsDialog(store)
    /\ InitVirtualChannelDialog(VcEmptyStore)

NextSettings ==
    \/ SdWidgetChanged
    \/ SdSaveSettings
    \/ SdLoadSettings
    \/ SdOkClicked
    \/ SdCancelClicked
    \/ SdResetClicked

SpecSettings == InitSettings /\ [][NextSettings]_vars

(***************************************************************************)
(* The virtual-channel dialog.                                             *)
(***************************************************************************)
\* the user toggles an enabled checkbox: its toggled signal runs
\* onClipboardToggled, onAudioToggled or onSettingsChanged
VcCheckBoxToggled ==
    \E k \in VcKeys :
        /\ VcWidgetEnabled(vc_ui, k)
        /\ vc_edits < MaxEdits
        /\ vc_edits' = vc_edits + 1
        /\ vc_ui' = [vc_ui EXCEPT ![k] = ~vc_ui[k]]
        /\ vc_modified' = TRUE
        /\ vc_applyEnabled' = vc_updateUI(TRUE)
        /\ sig' = VcToggledSlot(k, ~vc_ui[k])
        /\ op' = "onToggled"
        /\ boxes' = <<>>
        /\ posted' = <<>>
        /\ UNCHANGED <<vc_store, vc_currentSettings, AppVars, settingsVars>>

\* what VirtualChannelDialog::saveSettings does; the caller's signals follow its own
VcSave(after) ==
    /\ vc_store' = vc_saveSettings(vc_ui, vc_store)
    /\ vc_modified' = FALSE
    /\ vc_applyEnabled' = vc_updateUI(FALSE)
    /\ vc_currentSettings' = vc_settingsJson(vc_ui)
    /\ sig' = <<Emit("settingsChanged", vc_settingsJson(vc_ui))>> \o after
    /\ UNCHANGED <<vc_ui, vc_edits>>

\* a call of VirtualChannelDialog::saveSettings
VcSaveSettings ==
    /\ VcSave(<<>>)
    /\ op' = "saveSettings"
    /\ boxes' = <<>>
    /\ posted' = <<>>
    /\ UNCHANGED <<AppVars, settingsVars>>

\* a call of VirtualChannelDialog::loadSettings: a group's checkbox that
\* changes runs its slot, and the flag is cleared at the end
VcLoadSettings ==
    LET loaded == vc_loadSettings(vc_store)
        Changed(k) == IF loaded[k] # vc_ui[k] THEN VcToggledSlot(k, loaded[k]) ELSE <<>>
    IN  /\ vc_ui' = loaded
        /\ vc_modified' = FALSE
        /\ vc_applyEnabled' = vc_updateUI(FALSE)
        /\ sig' = Changed("clipboard/enabled") \o Changed("audio/enabled")
        /\ op' = "loadSettings"
        /\ boxes' = <<>>
        /\ posted' = <<>>
        /\ UNCHANGED <<vc_store, vc_currentSettings, vc_edits, AppVars, settingsVars>>

\* VirtualChannelDialog::onApplyClicked, through the Apply button
VcApplyClicked ==
    /\ vc_applyEnabled
    /\ VcSave(vc_onApplyClicked(vc_ui))
    /\ op' = "onApplyClicked"
    /\ boxes' = <<<<"information", "Settings Applied", "">>>>
    /\ posted' = <<>>
    /\ UNCHANGED <<AppVars, settingsVars>>

\* VirtualChannelDialog::onCloseClicked
VcCloseClicked ==
    \E answer \in Answers :
        /\ IF vc_modified /\ answer = "Yes"
           THEN VcSave(<<>>)
           ELSE /\ sig' = <<>>
                /\ UNCHANGED vcVars
        /\ boxes' = IF vc_modified THEN <<<<"question", "Unsaved Changes", answer>>>> ELSE <<>>
        /\ op' = "onCloseClicked"
        /\ posted' = <<>>
        /\ UNCHANGED <<AppVars, settingsVars>>

\* the dialog over any store it can find
InitVirtualChannels ==
    /\ InitApp(TRUE, "started")
    /\ InitSettingsDialog(SdEmptyStore)
    /\ \E store \in VcStores : InitVirtualChannelDialog(store)

NextVirtualChannels ==
    \/ VcCheckBoxToggled
    \/ VcSaveSettings
    \/ VcLoadSettings
    \/ VcApplyClicked
    \/ VcCloseClicked

SpecVirtualChannels == InitVirtualChannels /\ [][NextVirtualChannels]_vars

(***************************************************************************)
(* Properties.                                                             *)
(***************************************************************************)
\* C1: in every reachable state m_apiRunning is true exactly when the engine
\* process launched by the bridge is running; in particular the process is
\* never running while m_apiRunning is false.
C1_ApiRunningTracksProcess == m_apiRunning <=> (procState = "Running")

\* the text message a signal of the display widget stands for
MessageFor(signal) ==
    CASE signal[1] = "mouseEvent" ->
             <<"mouse", signal[2][1], signal[2][2], signal[2][3], signal[2][4]>>
      [] signal[1] = "keyEvent" -> <<"keyboard", signal[2][1], signal[2][2]>>
      [] signal[1] = "wheelEvent" -> <<"wheel", signal[2][1]>>
DisplayHandlers == {"mousePressEvent", "mouseReleaseEvent", "mouseMoveEvent",
                    "wheelEvent", "keyPressEvent", "keyReleaseEvent"}

\* C2: every mouseEvent, keyEvent and wheelEvent signal of the display widget
\* appends exactly one message of its type to what the bridge has sent over
\* the WebSocket when the socket is connected, and nothing when it is not.
C2_EveryInputEventIsForwarded ==
    [][op' \in DisplayHandlers =>
          wsSent' = wsSent \o (IF wsState = "Connected"
                               THEN <<MessageFor(sig'[1])>> ELSE <<>>)]_vars

\* C3: a binary WebSocket message that decodes to an image causes exactly one
\* bitmapReceived, after which the pixmap is that image and the remote
\* resolution its size; one that does not decode emits nothing and leaves
\* both alone, as does a null image handed to updateBitmap.
C3_BitmapFramesAreRelayed ==
    [][\A f \in Frames :
          op' = "onWebSocketBinaryMessageReceived" /\ WsBinaryReceived(f) =>
              /\ IF f.magic \in {"PNG", "BMP"} /\ f.w > 0 /\ f.h > 0
                 THEN /\ sig' = <<Emit("bitmapReceived", [w |-> f.w, h |-> f.h, px |-> f.px])>>
                      /\ m_displayPixmap' = [w |-> f.w, h |-> f.h, px |-> f.px]
                      /\ m_remoteResolution' = <<f.w, f.h>>
                 ELSE /\ sig' = <<>>
                      /\ UNCHANGED <<m_displayPixmap, m_remoteResolution>>
              /\ updateBitmap(m_displayPixmap, m_remoteResolution, NullImage)
                     = <<m_displayPixmap, m_remoteResolution>>]_vars

\* a frame was decoded over an earlier picture and is now on display
C3_FrameShown ==
    /\ op = "onWebSocketBinaryMessageReceived"
    /\ sig = <<Emit("bitmapReceived", [w |-> 800, h |-> 600, px |-> "a"])>>
    /\ m_displayPixmap = [w |-> 800, h |-> 600, px |-> "a"]
    /\ m_remoteResolution = <<800, 600>>

\* C4: when the engine process finishes or errors, or an HTTP reply fails,
\* the bridge only emits apiError/connectionError, each of which the main
\* window turns into one warning box and the status-bar message; it starts no
\* process, opens no socket and posts or sends nothing; and m_apiRunning
\* turns true in no step but a call of startGoRDPAPI.
C4_NoRecoveryBeyondMessageBox ==
    [][/\ (\/ op' \in {"onProcessFinished", "onProcessError"}
           \/ /\ op' = "onNetworkReplyFinished"
              /\ \E reply \in Replies : reply.failed /\ HttpReplyFinished(reply))
          => /\ \A i \in DOMAIN sig' : sig'[i][1] \in {"apiError", "connectionError"}
             /\ Len(boxes') = Len(sig')
             /\ \A i \in DOMAIN sig' : boxes'[i] = <<"warning", "Error", sig'[i][2]>>
             /\ sig' # <<>> => statusBarMessage' = "Error: " \o sig'[Len(sig')][2]
             /\ procState' \in {procState, "NotRunning"}
             /\ wsState' = wsState
             /\ wsSent' = wsSent
             /\ posted' = <<>>
             /\ httpOutstanding' <= httpOutstanding
             /\ ~m_apiRunning => ~m_apiRunning'
       /\ (~m_apiRunning /\ m_apiRunning' => op' = "startGoRDPAPI")]_vars

\* the engine crashed under an open socket: a box, and the socket as it was
C4_CrashReported ==
    /\ op = "onProcessError"
    /\ sig = <<Emit("apiError", "GoRDP API crashed"),
               Emit("apiError", "GoRDP API exited with error: ")>>
    /\ Len(boxes) = 2
    /\ ~m_apiRunning
    /\ procState = "NotRunning"
    /\ wsState = "Connected"

\* the GoRDPBridge objects alive: the main window's, the one on the stack of
\* main()'s lambda while its warning box is open, and those of Test Connection
LiveBridges ==
    1 + Len(testBridges) + (IF availCheck = "warning" THEN 1 ELSE 0)

\* C5 as stated: at most one GoRDPBridge exists in every reachable state.
C5_AtMostOneBridge == LiveBridges <= 1

\* C5: the availability check and every Test Connection run create a
\* GoRDPBridge next to the main window's, but such a bridge never starts an
\* engine, opens a socket or posts a request (its connectToServer ends in
\* connectionError), and creating or releasing one leaves the main window's
\* bridge as it was.
C5_OnlyTheMainBridgeActs ==
    /\ [](\A i \in DOMAIN testBridges :
              /\ ~testBridges[i].m_apiRunning
              /\ testBridges[i].procState = "NotRunning"
              /\ testBridges[i].wsState = "Unconnected"
              /\ testBridges[i].httpOutstanding = 0
              /\ testBridges[i].sigs = <<Emit("connectionError", "GoRDP API not running")>>)
    /\ [][op' \in {"onTestConnectionClicked", "testConnectionTimeout",
                   "checkGoRDPAvailability", "availabilityWarningClosed"}
              => posted' = <<>> /\ sig' = <<>> /\ UNCHANGED bridgeVars]_vars

\* a Test Connection bridge and the availability check's bridge exist while
\* the main window's bridge runs the engine
C5_ThreeBridges ==
    /\ Len(testBridges) = 1
    /\ availCheck = "warning"
    /\ op = "onTestConnectionClicked"

\* C6: saveSettings followed by loadSettings leaves every checkbox and combo
\* box of the settings dialog with the value it had at saveSettings, and
\* m_settingsModified false.
C6_SaveLoadRoundTrip ==
    [][op = "saveSettings" /\ op' = "loadSettings"
           => sd_ui' = sd_ui /\ ~sd_modified']_vars

\* edited widgets (and a combo box with nothing selected) were saved and
\* loaded again
C6_LoadedAfterSave ==
    /\ op = "loadSettings"
    /\ sd_edits = MaxEdits
    /\ sd_ui["startup/minimized"]
    /\ sd_ui["display/resolution"] = -1
    /\ sd_ui["display/colorDepth"] = 0
    /\ sd_store["startup/minimized"] = "true"
    /\ sd_store["display/colorDepth"] = "0"
    /\ ~sd_modified

\* C7: onApplyClicked writes the ten flags to the store, emits settingsChanged
\* once with the checkbox states, then clipboardToggled, audioToggled and
\* deviceRedirectionToggled(drive or printer or port), and leaves
\* m_settingsModified false and the Apply button disabled.
C7_ApplyPersistsAndAnnounces ==
    [][op' = "onApplyClicked" =>
          /\ Cardinality(DOMAIN vc_store') = 10
          /\ \A k \in DOMAIN vc_ui : vc_store'[k] = (IF vc_ui[k] THEN "true" ELSE "false")
          /\ Len(sig') = 4
          /\ sig'[1] = <<"settingsChanged",
                 [clipboard |-> [enabled |-> vc_ui["clipboard/enabled"],
                                 text |-> vc_ui["clipboard/text"],
                                 images |-> vc_ui["clipboard/images"],
                                 files |-> vc_ui["clipboard/files"]],
                  audio |-> [enabled |-> vc_ui["audio/enabled"],
                             playback |-> vc_ui["audio/playback"],
                             recording |-> vc_ui["audio/recording"]],
                  devices |-> [drive |-> vc_ui["devices/drive"],
                               printer |-> vc_ui["devices/printer"],
                               port |-> vc_ui["devices/port"]]]>>
          /\ sig'[2] = <<"clipboardToggled", vc_ui["clipboard/enabled"]>>
          /\ sig'[3] = <<"audioToggled", vc_ui["audio/enabled"]>>
          /\ sig'[4] = <<"deviceRedirectionToggled",
                         vc_ui["devices/drive"] \/ vc_ui["devices/printer"]
                             \/ vc_ui["devices/port"]>>
          /\ vc_ui' = vc_ui
          /\ ~vc_modified'
          /\ ~vc_applyEnabled']_vars

\* Apply was clicked with printer redirection alone checked
C7_AppliedWithPrinter ==
    /\ op = "onApplyClicked"
    /\ vc_ui["devices/printer"] /\ ~vc_ui["devices/drive"] /\ ~vc_ui["devices/port"]
    /\ sig[4] = <<"deviceRedirectionToggled", TRUE>>
    /\ vc_store["devices/printer"] = "true"
    /\ ~vc_applyEnabled

\* the texts of the model that are no JSON document
NotJson == { <<W("invalid"), W("json")>>, <<>>,
             <<P("{"), S("type"), P(":"), S("connection_status")>> }

\* C8: an HTTP reply with a network error or a body that is no JSON causes
\* exactly one connectionError and no other signal; a WebSocket text that is
\* no JSON causes no signal; m_isConnected, m_apiRunning and
\* m_lastPerformanceStats keep their values in all three cases.
C8_InvalidJsonIsAnError ==
    [][/\ \A reply \in Replies :
              /\ op' = "onNetworkReplyFinished"
              /\ reply.failed \/ reply.body \in NotJson
              /\ HttpReplyFinished(reply)
              => /\ Len(sig') = 1
                 /\ sig'[1][1] = "connectionError"
                 /\ UNCHANGED <<m_isConnected, m_apiRunning, m_lastPerformanceStats>>
       /\ \A message \in NotJson :
              /\ op' = "onWebSocketTextMessageReceived"
              /\ WsTextReceived(message)
              => /\ sig' = <<>>
                 /\ UNCHANGED <<m_isConnected, m_apiRunning, m_lastPerformanceStats>>]_vars

\* a reply that is no JSON arrived in a connected session and left it connected
C8_InvalidReplyWhileConnected ==
    /\ op = "onNetworkReplyFinished"
    /\ sig = <<Emit("connectionError", "Invalid JSON response")>>
    /\ m_isConnected
    /\ m_apiRunning
    /\ m_lastPerformanceStats # JObject(<<>>)

\* C9: after the construction of MainWindow every tool bar has at least one
\* action, and each of its actions is enabled or a separator.
C9_ToolBarActionsEnabled ==
    op = "MainWindow" =>
        \A i \in DOMAIN ToolBars :
            /\ Len(ToolBars[i]) >= 1
            /\ \A j \in DOMAIN ToolBars[i] :
                   \/ ToolBars[i][j] = "separator"
                   \/ ActionEnabled(ToolBars[i][j], connectActionEnabled,
                                    disconnectActionEnabled)

\* C10: in every state the menu bar has top-level menus whose titles contain
\* "File", "Edit", "View" and "Help", whatever the case of the letters.
C10_MenuBarHasFileEditViewHelp ==
    \A needle \in {<<"F", "i", "l", "e">>, <<"E", "d", "i", "t">>,
                   <<"V", "i", "e", "w">>, <<"H", "e", "l", "p">>} :
        \E i \in DOMAIN menuBarMenus : ContainsCI(menuBarMenus[i], needle)

\* C11: once disconnectFromServer has ended a session, the bridge and the
\* Connect and Disconnect actions stay in the disconnected state until
\* connectToServer is called again, whatever replies and WebSocket messages
\* arrive in between.
C11_StaysDisconnected ==
    userDisconnected =>
        /\ ~m_isConnected
        /\ ~mw_isConnected
        /\ connectActionEnabled
        /\ ~disconnectActionEnabled

\* a late answer has put a session the user ended back into the connected
\* state
C11_ReconnectedByLateReply ==
    /\ userDisconnected
    /\ op \in {"onNetworkReplyFinished", "onWebSocketTextMessageReceived"}
    /\ m_isConnected
    /\ disconnectActionEnabled

\* C12: in every state m_isConnected implies m_apiRunning; when the engine
\* process finishes or reports an error during a session, m_isConnected turns
\* false, connectionStatusChanged(false) is emitted, and the main window
\* disables Disconnect and stops polling.
C12_ConnectedImpliesApiRunning ==
    /\ [](m_isConnected => m_apiRunning)
    /\ [][op' \in {"onProcessFinished", "onProcessError"} /\ m_isConnected
              => /\ ~m_isConnected'
                 /\ Count(sig', "connectionStatusChanged") = 1
                 /\ ~disconnectActionEnabled'
                 /\ ~statusTimerActive']_vars

\* the engine crashed during a session and the session still counts as
\* connected
C12_ConnectedAfterCrash ==
    /\ op = "onProcessError"
    /\ procState = "NotRunning"
    /\ ~m_apiRunning
    /\ m_isConnected
    /\ disconnectActionEnabled
    /\ statusTimerActive

\* C13: connectToServer called while m_apiRunning is false emits
\* connectionError("GoRDP API not running") once, posts nothing and leaves
\* m_currentServer, m_currentPort, m_currentUsername and m_isConnected as
\* they were; called while m_apiRunning is true it posts one /api/connect
\* request with server, port, username and password, and with options only
\* when they are not empty, and does not change m_isConnected.
C13_ConnectToServer ==
    [][\A server \in Servers, options \in Options :
          op' = "connectToServer" /\ ConnectToServerCall(server, options) =>
              /\ m_isConnected' = m_isConnected
              /\ IF ~m_apiRunning
                 THEN /\ sig' = <<Emit("connectionError", "GoRDP API not running")>>
                      /\ posted' = <<>>
                      /\ httpOutstanding' = httpOutstanding
                      /\ UNCHANGED <<m_currentServer, m_currentPort, m_currentUsername>>
                 ELSE /\ sig' = <<>>
                      /\ Len(posted') = 1
                      /\ httpOutstanding' = httpOutstanding + 1
                      /\ posted'[1][1] = "/api/connect"
                      /\ posted'[1][2] =
                             IF options = <<>>
                             THEN <<<<"server", server>>, <<"port", 3389>>,
                                    <<"username", "user">>, <<"password", "secret">>>>
                             ELSE <<<<"server", server>>, <<"port", 3389>>,
                                    <<"username", "user">>, <<"password", "secret">>,
                                    <<"options", options>>>>]_vars

\* connectToServer was refused after the engine had gone, with the connection
\* info of the earlier call still in place
C13_RefusedKeepsInfo ==
    /\ op = "connectToServer"
    /\ ~m_apiRunning
    /\ sig = <<Emit("connectionError", "GoRDP API not running")>>
    /\ posted = <<>>
    /\ m_currentServer \in Servers
    /\ m_currentPort = 3389

\* C14: disconnectFromServer does nothing when m_isConnected is false (no
\* request, no signal, no change of state); when m_isConnected is true it
\* posts one /api/disconnect request, sets m_isConnected false and emits
\* connectionStatusChanged(false) once; a second call right after the first
\* changes nothing.
C14_DisconnectFromServer ==
    [][op' = "disconnectFromServer" =>
          /\ IF m_isConnected
             THEN /\ posted' = <<sendHttpRequest("/api/disconnect", <<>>)>>
                  /\ httpOutstanding' = httpOutstanding + 1
                  /\ ~m_isConnected'
                  /\ sig' = <<Emit("connectionStatusChanged", FALSE)>>
             ELSE /\ posted' = <<>>
                  /\ sig' = <<>>
                  /\ UNCHANGED <<bridgeVars, mwVars, displayVars>>
          /\ op = "disconnectFromServer" =>
                 /\ posted' = <<>>
                 /\ sig' = <<>>
                 /\ UNCHANGED <<bridgeVars, mwVars, displayVars>>]_vars

\* disconnectFromServer was called again right after it had ended a session
C14_CalledTwice ==
    /\ op = "disconnectFromServer"
    /\ posted = <<>>
    /\ sig = <<>>
    /\ userDisconnected
    /\ ~m_isConnected
    /\ httpOutstanding > 0

C16_CloseAsksWhileConnected ==
    [][op' = "closeEvent" =>
          IF mw_isConnected
          THEN /\ Len(boxes') = 1
               /\ boxes'[1][1] = "question"
               /\ boxes'[1][3] \in CloseAnswers
               /\ lastCloseEvent' = "accepted" <=> boxes'[1][3] = "Yes"
               /\ boxes'[1][3] = "Yes" =>
                      /\ ~m_isConnected'
                      /\ posted' = disconnectFromServer(m_isConnected).posts
                      /\ sig' = disconnectFromServer(m_isConnected).sigs
               /\ boxes'[1][3] = "No" =>
                      /\ lastCloseEvent' = "ignored"
                      /\ posted' = <<>>
                      /\ sig' = <<>>
                      /\ UNCHANGED <<bridgeVars, mw_isConnected, connectActionEnabled,
                                     disconnectActionEnabled, statusTimerActive>>
          ELSE /\ boxes' = <<>>
               /\ lastCloseEvent' = "accepted"
               /\ posted' = <<>>
               /\ UNCHANGED bridgeVars]_vars

\* the user closed the window during a session and answered Yes
C16_ClosedAfterYes ==
    /\ op = "closeEvent"
    /\ boxes = <<<<"question", "Disconnect", "Yes">>>>
    /\ lastCloseEvent = "accepted"
    /\ posted = <<sendHttpRequest("/api/disconnect", <<>>)>>
    /\ ~m_isConnected
    /\ ~mw_isConnected

\* C17: every Test Connection run with a server address shows exactly one
\* outcome and then releases its bridge: a refusal of the bridge is shown by
\* the handler it is emitted in, a bridge is released only together with one
\* outcome box, and every bridge made is released in the end.
C17_TestConnectionReportsOnce ==
    /\ [][/\ op' = "onTestConnectionClicked"
          /\ Len(testBridges') > Len(testBridges)
          /\ Count(testBridges'[Len(testBridges')].sigs, "connectionError") > 0
          => Len(boxes') = 1]_vars
    /\ [][Len(testBridges') < Len(testBridges) => Len(boxes') = 1]_vars
    /\ \A i \in 1..MaxTestBridges :
           (Len(testBridges) >= i) ~> (Len(testBridges) < i)

\* a Test Connection run is over, its timer spent, with nothing shown and the
\* bridge still there
C17_NoOutcome ==
    /\ op = "testConnectionTimeout"
    /\ boxes = <<>>
    /\ Len(testBridges) = 1
    /\ ~testBridges[1].timer
    /\ testBridges[1].sigs = <<Emit("connectionError", "GoRDP API not running")>>


\* C18: a key whose translation is 0 is never sent to the engine: no
\* keyboard message handed to the socket carries key 0, whether it comes from
\* the display widget's keyPressEvent/keyReleaseEvent through
\* GoRDPBridge::sendKeyEvent, and InputHandler::handleKeyEvent emits no
\* keyEvent with key 0 for any key
C18_UnmappedKeyNeverSent ==
    /\ \A i \in DOMAIN wsSent : wsSent[i][1] = "keyboard" => wsSent[i][2] # 0
    /\ \A key \in QtKeys, pressed \in BOOLEAN :
           LET sigs == handleKeyEvent(TRUE, key, pressed)
           IN  \A i \in DOMAIN sigs : sigs[i][1] = "keyEvent" => sigs[i][2][1] # 0

\* C18: a key the display widget does not map has just been pressed while the
\* socket is connected, and a keyboard message with key 0 went out
C18_KeyZeroSent ==
    /\ op = "keyPressEvent"
    /\ sig = <<Emit("keyEvent", <<0, TRUE>>)>>
    /\ wsState = "Connected"
    /\ wsSent # <<>>
    /\ wsSent[Len(wsSent)] = <<"keyboard", 0, TRUE>>


\* C19: the two input translators agree: the key the display widget emits
\* for a pressed key is the key InputHandler::convertQtKeyToRDP gives for it,
\* and the button it emits for a pressed mouse button is the button
\* InputHandler::convertQtMouseButton gives for it
C19_TranslatorsAgree ==
    [][/\ \A key \in QtKeys :
              KeyPressed(key) =>
                  sig'[1][2][1] = InputHandler_convertQtKeyToRDP(key)
       /\ \A pos \in LocalPoints, button \in InputButtons :
              MousePressed(pos, button) =>
                  sig'[1][2][3] = InputHandler_convertQtMouseButton(button)]_vars

\* C19: the display widget has emitted a key or a button that some key or
\* button of the inputs is translated to by the widget but not by InputHandler
C19_TranslatorsDiffer ==
    \/ /\ op = "keyPressEvent"
       /\ \E key \in QtKeys :
              /\ sig[1][2][1] = convertQtKeyToRDP(key)
              /\ sig[1][2][1] # InputHandler_convertQtKeyToRDP(key)
    \/ /\ op = "mousePressEvent"
       /\ \E button \in InputButtons :
              /\ sig[1][2][3] = convertQtMouseButton(button)
              /\ sig[1][2][3] # InputHandler_convertQtMouseButton(button)


\* C20: the pointer mapping matches what is painted: at every local point of
\* the middle row and of the middle column of the widget at which paintEvent
\* draws the remote image, convertToRemoteCoordinates is the pixel drawn
\* there; and the last column and the last row of the remote image are the
\* image of some local point, also when the scaled image exceeds the widget
C20_PointerMatchesPainting ==
    LET Local == {<<x, widgetRect[2] \div 2>> : x \in 0..(widgetRect[1] - 1)}
                 \cup {<<widgetRect[1] \div 2, y>> : y \in 0..(widgetRect[2] - 1)}
        Drawn(p) == paintEvent(p, m_displayPixmap, widgetRect, m_remoteResolution,
                               m_zoomLevel)
        Remote(p) == convertToRemoteCoordinates(p, widgetRect, m_remoteResolution,
                                                m_zoomLevel)
    IN  /\ \A p \in Local :
               Drawn(p).what = "pixmap" => Remote(p) = Drawn(p).at
        /\ Drawn(<<widgetRect[1] \div 2, widgetRect[2] \div 2>>).what = "pixmap"
               => /\ \E p \in Local : Remote(p)[1] = m_remoteResolution[1] - 1
                  /\ \E p \in Local : Remote(p)[2] = m_remoteResolution[2] - 1

\* C20: the remote image is larger than the widget, and a mouse press was
\* forwarded with a remote point other than the pixel painted under it
C20_PressedOtherPixel ==
    /\ op = "mousePressEvent"
    /\ RoundScaled(m_remoteResolution[1], m_zoomLevel) > widgetRect[1]
    /\ \E pos \in LocalPoints :
           LET drawn == paintEvent(pos, m_displayPixmap, widgetRect, m_remoteResolution,
                                   m_zoomLevel)
           IN  /\ drawn.what = "pixmap"
               /\ <<sig[1][2][1], sig[1][2][2]>>
                      = convertToRemoteCoordinates(pos, widgetRect, m_remoteResolution,
                                                   m_zoomLevel)
               /\ <<sig[1][2][1], sig[1][2][2]>> # drawn.at


\* a point lies inside a screen of size res
InScreen(point, res) ==
    /\ 0 <= point[1] /\ point[1] <= res[1] - 1
    /\ 0 <= point[2] /\ point[2] <= res[2] - 1

\* C21: remote coordinates are clamped and the zoom level stays in range:
\* while the remote resolution is not empty, every point
\* convertToRemoteCoordinates can return for a local point, and every
\* mouseEvent a pointer event emits, lies in 0..width-1 by 0..height-1 of the
\* remote resolution; the zoom level is always within 0.1..5.0; and
\* setZoomLevel called with a value outside 0.1..5.0 leaves it unchanged
C21_CoordinatesClamped ==
    /\ [](~SizeIsEmpty(m_remoteResolution) =>
              /\ \A pos \in LocalPoints :
                     \A r \in RemotePoints(pos, widgetRect, m_remoteResolution,
                                           m_zoomLevel) : InScreen(r, m_remoteResolution)
              /\ op \in {"mousePressEvent", "mouseReleaseEvent", "mouseMoveEvent"}
                     => InScreen(<<sig[1][2][1], sig[1][2][2]>>, m_remoteResolution))
    /\ [](m_zoomLevel \in 1..50)
    /\ [][\A zoom \in ZoomInputs :
              (SetZoomLevelCall(zoom) /\ zoom \notin 1..50)
                  => m_zoomLevel' = m_zoomLevel]_vars

\* C21: setZoomLevel has been called with a value that is not a number, and
\* the zoom level is now that value
C21_ZoomNotANumber ==
    /\ op = "setZoomLevel"
    /\ IsNaN(m_zoomLevel)
    /\ m_zoomLevel \notin 1..50

=============================================================================
